---- MODULE Spec2Model ----
(***************************************************************************)
(* Bulk domain availability checker (pylarco/domain-checker).              *)
(*                                                                         *)
(* The module models                                                       *)
(*   - the format validators (isValidDomainFormat, isValidBaseName,        *)
(*     isValidTld) on character sequences,                                 *)
(*   - the resolver client and status classifier of                        *)
(*     services/domainCheckerService.ts (makeDohQuery, checkDomain),       *)
(*   - the check orchestrator and update batcher of App.tsx (handleSubmit, *)
(*     handleClear, clearAsyncOperations, flushPendingCellUpdates and the  *)
(*     promise chain attached to every checkDomain call).                  *)
(*                                                                         *)
(* A JavaScript string that the code inspects character by character is a  *)
(* sequence of one-character strings; a message that the code only builds  *)
(* and stores is a TLA+ string.                                            *)
(***************************************************************************)
EXTENDS Integers, Sequences, FiniteSets, TLC

VARIABLES
    (* ---- App.tsx component state and refs ---- *)
    baseNamesInput,      \* useState<string>: the base-name text area
    tldsInput,           \* useState<string>: the TLD input
    gridResults,         \* useState<ProcessedBaseNameResult[]>
    parsedTldsForTable,  \* useState<string[]>
    isLoading,           \* useState<boolean>: the "still running" flag
    errorMessage,        \* useState<string | null>
    startTime,           \* startTimeRef
    timeTaken,           \* useState<string | null>
    sortConfig,          \* useState<SortConfig | null>: <<>> or <<cfg>>
    filterOptions,       \* useState<FilterOptions>
    pendingCellUpdates,  \* pendingCellUpdatesRef: the batcher's buffer
    flushInterval,       \* flushIntervalRef: 0 (null) or an interval id
    completedChecks,     \* completedChecksRef
    totalChecks,         \* totalChecksRef
    (* ---- the environment of the component ---- *)
    timers,              \* interval ids registered with window.setInterval
    tasks,               \* every checkDomain promise chain dispatched so far
    (* ---- history variables (no code reads them) ---- *)
    submissions,         \* number of handleSubmit calls so far
    runId,               \* number of accepted submissions so far
    staleEffects,        \* effects a task of an earlier run had on this run
    flushIssuedUpdate,   \* whether the handler that ran last called setGridResults from a flush
    (* ---- one checkDomain call followed query by query ---- *)
    cdDomain,            \* the argument of checkDomain
    cdPc,                \* "idle" | "waiting" | "done"
    cdQueries,           \* the four makeDohQuery calls, in queryPromises order
    cdOutcome,           \* the DomainCheckOutcome the promise resolved with
    cdFetchCalls         \* number of fetch() calls issued

appVars == <<baseNamesInput, tldsInput, gridResults, parsedTldsForTable,
             isLoading, errorMessage, startTime, timeTaken, sortConfig,
             filterOptions,
             pendingCellUpdates, flushInterval, completedChecks, totalChecks,
             timers, tasks, submissions, runId, staleEffects,
             flushIssuedUpdate>>

cdVars == <<cdDomain, cdPc, cdQueries, cdOutcome, cdFetchCalls>>

vars == <<appVars, cdVars>>

(***************************************************************************)
(* Values                                                                  *)
(***************************************************************************)

\* null / undefined of a string-valued or status-valued slot
Null == "null"

\* enum DomainStatus
CHECKING == "Checking"
AVAILABLE == "Available"
TAKEN == "Taken"
INVALID == "Invalid"
IDLE == "Idle"

DomainStatus == {CHECKING, AVAILABLE, TAKEN, INVALID, IDLE}

(***************************************************************************)
(* Character classes and string primitives of JavaScript                   *)
(***************************************************************************)

LowerChars == {"a", "b", "c", "d", "e", "f", "g", "h", "i", "j", "k", "l", "m",
               "n", "o", "p", "q", "r", "s", "t", "u", "v", "w", "x", "y", "z"}

UpperChars == {"A", "B", "C", "D", "E", "F", "G", "H", "I", "J", "K", "L", "M",
               "N", "O", "P", "Q", "R", "S", "T", "U", "V", "W", "X", "Y", "Z"}

DigitChars == {"0", "1", "2", "3", "4", "5", "6", "7", "8", "9"}

\* the characters String.prototype.trim removes (those the inputs can hold)
WhiteSpaceChars == {" ", "\t", "\n", "\r"}

LowerOf == [c \in UpperChars |->
              CASE c = "A" -> "a" [] c = "B" -> "b" [] c = "C" -> "c"
                [] c = "D" -> "d" [] c = "E" -> "e" [] c = "F" -> "f"
                [] c = "G" -> "g" [] c = "H" -> "h" [] c = "I" -> "i"
                [] c = "J" -> "j" [] c = "K" -> "k" [] c = "L" -> "l"
                [] c = "M" -> "m" [] c = "N" -> "n" [] c = "O" -> "o"
                [] c = "P" -> "p" [] c = "Q" -> "q" [] c = "R" -> "r"
                [] c = "S" -> "s" [] c = "T" -> "t" [] c = "U" -> "u"
                [] c = "V" -> "v" [] c = "W" -> "w" [] c = "X" -> "x"
                [] c = "Y" -> "y" [] OTHER -> "z"]

\* String.prototype.toLowerCase
ToLowerCase(s) == [i \in 1..Len(s) |-> IF s[i] \in UpperChars THEN LowerOf[s[i]] ELSE s[i]]

\* String.prototype.trim
Trim(s) ==
    IF \A i \in 1..Len(s) : s[i] \in WhiteSpaceChars THEN <<>>
    ELSE LET lo == CHOOSE i \in 1..Len(s) :
                      s[i] \notin WhiteSpaceChars /\ \A j \in 1..(i - 1) : s[j] \in WhiteSpaceChars
             hi == CHOOSE i \in 1..Len(s) :
                      s[i] \notin WhiteSpaceChars /\ \A j \in (i + 1)..Len(s) : s[j] \in WhiteSpaceChars
         IN  SubSeq(s, lo, hi)

\* String.prototype.includes / startsWith / endsWith for a one-character needle
Includes(s, c) == \E i \in 1..Len(s) : s[i] = c
StartsWith(s, c) == Len(s) > 0 /\ s[1] = c
EndsWith(s, c) == Len(s) > 0 /\ s[Len(s)] = c

\* s.includes('..')
IncludesDotDot(s) == \E i \in 1..(Len(s) - 1) : s[i] = "." /\ s[i + 1] = "."

\* String.prototype.split(sep) for a one-character separator: the pieces
\* between the separators, empty pieces included ("" splits into [""])
Split(s, sep) ==
    LET idx == [i \in 1..Len(s) |-> i]
        isSep(i) == s[i] = sep
        cuts == SelectSeq(idx, isSep)
        n == Len(cuts)
    IN  [k \in 1..(n + 1) |->
            SubSeq(s,
                   (IF k = 1 THEN 0 ELSE cuts[k - 1]) + 1,
                   (IF k = n + 1 THEN Len(s) + 1 ELSE cuts[k]) - 1)]

\* array.filter((value, index, self) => self.indexOf(value) === index)
FirstOccurrences(list) ==
    LET idx == [i \in 1..Len(list) |-> i]
        first(i) == \A j \in 1..(i - 1) : list[j] # list[i]
        kept == SelectSeq(idx, first)
    IN  [k \in 1..Len(kept) |-> list[kept[k]]]

\* /^[0-9]+$/.test(s)
AllDigits(s) == Len(s) > 0 /\ \A i \in 1..Len(s) : s[i] \in DigitChars

IsAlnum(c) == c \in LowerChars \/ c \in UpperChars \/ c \in DigitChars

(***************************************************************************)
(* services/domainCheckerService.ts: isValidDomainFormat                   *)
(***************************************************************************)

MinDomainLength == 3
MaxDomainLength == 253
MaxLabelLength == 63
MinTldLength == 2



Valid == [valid |-> TRUE, reason |-> Null]
Rejected(msg) == [valid |-> FALSE, reason |-> msg]

\* isValidDomainFormat without the test for hyphens at the ends of a label
isValidDomainFormat_NoHyphenTest(domain) ==
    IF Len(domain) = 0 THEN Rejected("Domain must be a string.")
    ELSE
    LET normalizedDomain == Trim(ToLowerCase(domain))
        labels == Split(normalizedDomain, ".")
        tld == labels[Len(labels)]
    IN  IF Len(normalizedDomain) < MinDomainLength \/ Len(normalizedDomain) > MaxDomainLength
        THEN Rejected("Domain length must be between 3 and 253 characters.")
        ELSE IF \/ ~Includes(normalizedDomain, ".")
                \/ StartsWith(normalizedDomain, ".")
                \/ EndsWith(normalizedDomain, ".")
        THEN Rejected("Domain must contain at least one dot, not at the start or end.")
        ELSE IF \E i \in 1..Len(normalizedDomain) :
                    ~IsAlnum(normalizedDomain[i]) /\ normalizedDomain[i] \notin {".", "-"}
        THEN Rejected("Domain contains invalid characters. Only alphanumeric, dots, and hyphens allowed.")
        ELSE IF IncludesDotDot(normalizedDomain)
        THEN Rejected("Domain cannot contain consecutive dots.")
        ELSE IF \E k \in 1..Len(labels) : Len(labels[k]) = 0 \/ Len(labels[k]) > MaxLabelLength
        THEN Rejected("Each part of the domain (label) must be between 1 and 63 characters.")
        ELSE IF AllDigits(tld) /\ Len(tld) > 0
        THEN Rejected("Top-level domain (TLD) appears invalid (e.g., all numeric).")
        ELSE IF Len(tld) < MinTldLength
        THEN Rejected("Top-level domain (TLD) must be at least 2 characters long.")
        ELSE Valid

isValidDomainFormat(domain) ==
    IF Len(domain) = 0 THEN Rejected("Domain must be a string.")
    ELSE
    LET normalizedDomain == Trim(ToLowerCase(domain))
        labels == Split(normalizedDomain, ".")
        tld == labels[Len(labels)]
    IN  IF Len(normalizedDomain) < MinDomainLength \/ Len(normalizedDomain) > MaxDomainLength
        THEN Rejected("Domain length must be between 3 and 253 characters.")
        ELSE IF \/ ~Includes(normalizedDomain, ".")
                \/ StartsWith(normalizedDomain, ".")
                \/ EndsWith(normalizedDomain, ".")
        THEN Rejected("Domain must contain at least one dot, not at the start or end.")
        ELSE IF \E i \in 1..Len(normalizedDomain) :
                    ~IsAlnum(normalizedDomain[i]) /\ normalizedDomain[i] \notin {".", "-"}
        THEN Rejected("Domain contains invalid characters. Only alphanumeric, dots, and hyphens allowed.")
        ELSE IF IncludesDotDot(normalizedDomain)
        THEN Rejected("Domain cannot contain consecutive dots.")
        ELSE IF \E k \in 1..Len(labels) : Len(labels[k]) = 0 \/ Len(labels[k]) > MaxLabelLength
        THEN Rejected("Each part of the domain (label) must be between 1 and 63 characters.")
        ELSE IF \E k \in 1..Len(labels) : StartsWith(labels[k], "-") \/ EndsWith(labels[k], "-")
        THEN Rejected("Labels cannot start or end with a hyphen.")
        ELSE IF AllDigits(tld) /\ Len(tld) > 0
        THEN Rejected("Top-level domain (TLD) appears invalid (e.g., all numeric).")
        ELSE IF Len(tld) < MinTldLength
        THEN Rejected("Top-level domain (TLD) must be at least 2 characters long.")
        ELSE Valid

(***************************************************************************)
(* services/domainCheckerService.ts: the resolver client (makeDohQuery)    *)
(***************************************************************************)

\* DomainCheckerService.providers, by name
Providers == <<"Cloudflare", "Google">>

\* the record types checkDomain asks each provider for, in call order
RecordTypes == <<"A", "NS">>

\* DNS RCODEs the classifier tests for
NOERROR == 0
NXDOMAIN == 3

\* an optional value (a `?:` field, undefined, null): <<>> or <<v>>
None == <<>>
Some(v) == <<v>>

\* interface DohQueryResult
DohQueryResult(providerName, recordType, dnsStatus, data, error) ==
    [providerName |-> providerName, recordType |-> recordType,
     dnsStatus |-> dnsStatus, data |-> data, error |-> error]

\* makeDohQuery, catch (err): a rejected fetch, a body that does not parse,
\* or the access to .Status of a null body
MakeDohQueryCaught(providerName, recordType, message) ==
    DohQueryResult(providerName, recordType, None, None, message)

\* MakeDohQueryParsed whose non-2xx result leaves out the body's Status
MakeDohQueryParsed_DropsStatus(providerName, recordType, response, body, nullMessage) ==
    IF ~response.ok
    THEN DohQueryResult(providerName, recordType, None, None,
                        "HTTP error " \o ToString(response.status) \o " " \o response.statusText)
    ELSE IF body = None
    THEN MakeDohQueryCaught(providerName, recordType, nullMessage)
    ELSE DohQueryResult(providerName, recordType, body[1].Status, body, Null)

\* makeDohQuery once response.json() has resolved with responseData:
\* body = None is JSON null, otherwise Some([Status, Answer]) where Status is
\* None when the body has no Status field
MakeDohQueryParsed(providerName, recordType, response, body, nullMessage) ==
    IF ~response.ok
    THEN DohQueryResult(providerName, recordType,
                        IF body = None THEN None ELSE body[1].Status,
                        None,
                        "HTTP error " \o ToString(response.status) \o " " \o response.statusText)
    ELSE IF body = None
    THEN MakeDohQueryCaught(providerName, recordType, nullMessage)
    ELSE DohQueryResult(providerName, recordType, body[1].Status, body, Null)

(***************************************************************************)
(* services/domainCheckerService.ts: the status classifier (checkDomain)   *)
(***************************************************************************)

\* array.join(sep) of strings
RECURSIVE JoinFrom(_, _, _)
JoinFrom(list, sep, k) ==
    IF k > Len(list) THEN ""
    ELSE IF k = Len(list) THEN list[k]
    ELSE list[k] \o sep \o JoinFrom(list, sep, k + 1)

Join(list, sep) == JoinFrom(list, sep, 1)

\* `${res.providerName} ${res.recordType}-query`
DetailPrefix(res) == res.providerName \o " " \o res.recordType \o "-query"

\* a line of the audit trail: its prefix (up to the colon) and the rest
Detail(prefix, rest) == [prefix |-> prefix, rest |-> rest]
DetailText(d) == d.prefix \o d.rest

\* (res.data?.Answer?.length ?? 0) > 0
HasAnswers(res) == res.data # None /\ res.data[1].Answer > 0

\* ClassifyOne with the two RCODE tests exchanged (0 taken for NXDOMAIN)
ClassifyOne_SwappedRcodes(acc, res) ==
    IF res.dnsStatus = Some(NXDOMAIN)
    THEN [acc EXCEPT
            !.takenReasons = Append(@, Detail(DetailPrefix(res), ": NOERROR")),
            !.allQueriesReportNxDomain = FALSE]
    ELSE IF res.dnsStatus = Some(NOERROR)
    THEN [acc EXCEPT
            !.allQueryDetails = Append(@, Detail(DetailPrefix(res), ": NXDOMAIN"))]
    ELSE [acc EXCEPT
            !.allQueriesReportNxDomain = FALSE,
            !.allQueryDetails = Append(@, Detail(DetailPrefix(res), ": Error"))]

\* ClassifyOne whose last branch forgets to clear allQueriesReportNxDomain
ClassifyOne_ErrorKeepsFlag(acc, res) ==
    IF res.dnsStatus = Some(NOERROR)
    THEN [acc EXCEPT
            !.takenReasons = Append(@, Detail(DetailPrefix(res), ": NOERROR")),
            !.allQueriesReportNxDomain = FALSE]
    ELSE IF res.dnsStatus = Some(NXDOMAIN)
    THEN [acc EXCEPT
            !.allQueryDetails = Append(@, Detail(DetailPrefix(res), ": NXDOMAIN"))]
    ELSE [acc EXCEPT
            !.allQueryDetails = Append(@, Detail(DetailPrefix(res), ": Error"))]

\* the body of results.forEach(res => ...) applied to one result
ClassifyOne(acc, res) ==
    IF res.dnsStatus = Some(NOERROR)
    THEN [acc EXCEPT
            !.takenReasons = Append(@, Detail(DetailPrefix(res),
                 ": NOERROR" \o (IF HasAnswers(res) THEN " (has records)"
                                 ELSE " (no specific records, e.g., parked)"))),
            !.allQueriesReportNxDomain = FALSE]
    ELSE IF res.dnsStatus = Some(NXDOMAIN)
    THEN [acc EXCEPT
            !.allQueryDetails = Append(@, Detail(DetailPrefix(res), ": NXDOMAIN"))]
    ELSE [acc EXCEPT
            !.allQueriesReportNxDomain = FALSE,
            !.allQueryDetails = Append(@, Detail(DetailPrefix(res),
                 ": " \o (IF res.error # Null THEN "Error (" \o res.error \o ")"
                          ELSE "Status " \o (IF res.dnsStatus = None THEN "Unknown"
                                             ELSE ToString(res.dnsStatus[1])))))]

RECURSIVE ClassifyFrom(_, _, _)
ClassifyFrom(acc, results, k) ==
    IF k > Len(results) THEN acc
    ELSE ClassifyFrom(ClassifyOne(acc, results[k]), results, k + 1)

\* ClassifyAll that decides on the first result alone, as a race would
ClassifyAll_FirstOnly(results) ==
    ClassifyFrom([takenReasons |-> <<>>, allQueriesReportNxDomain |-> TRUE,
                  allQueryDetails |-> <<>>], <<results[1]>>, 1)

\* results.forEach(...) from the initial takenReasons, flag and details
ClassifyAll(results) ==
    ClassifyFrom([takenReasons |-> <<>>, allQueriesReportNxDomain |-> TRUE,
                  allQueryDetails |-> <<>>], results, 1)

\* d.startsWith(tr.substring(0, tr.indexOf(':'))): tr's text up to its colon
\* is its prefix; a detail of these providers starts with that text exactly
\* when its own prefix is the same
DetailStartsWithPrefixOf(d, tr) == d.prefix = tr.prefix

\* OtherDetails that drops every detail of a provider named in takenReasons
OtherDetails_ByProvider(acc) ==
    LET provider(d) == IF d.prefix \in {"Cloudflare A-query", "Cloudflare NS-query"}
                       THEN "Cloudflare" ELSE "Google"
        keep(d) == ~\E i \in 1..Len(acc.takenReasons) :
                        provider(d) = provider(acc.takenReasons[i])
    IN  SelectSeq(acc.allQueryDetails, keep)

\* allQueryDetails.filter(d => !takenReasons.some(tr => d.startsWith(...)))
OtherDetails(acc) ==
    LET keep(d) == ~\E i \in 1..Len(acc.takenReasons) :
                        DetailStartsWithPrefixOf(d, acc.takenReasons[i])
    IN  SelectSeq(acc.allQueryDetails, keep)

Texts(details) == [i \in 1..Len(details) |-> DetailText(details[i])]

\* interface DomainCheckOutcome
DomainCheckOutcome(status, reason) == [status |-> status, reason |-> reason]

\* checkDomain after `await Promise.all(queryPromises)`
Classify(results) ==
    LET acc == ClassifyAll(results)
    IN  IF Len(acc.takenReasons) > 0
        THEN DomainCheckOutcome(TAKEN,
                 "Taken because: " \o Join(Texts(acc.takenReasons), "; ")
                 \o ". Other details: " \o Join(Texts(OtherDetails(acc)), "; "))
        ELSE IF acc.allQueriesReportNxDomain
        THEN DomainCheckOutcome(AVAILABLE,
                 "All providers reported NXDOMAIN for A & NS records. Details: "
                 \o Join(Texts(acc.allQueryDetails), "; "))
        ELSE DomainCheckOutcome(TAKEN,
                 "Availability ambiguous, assuming taken. Details: "
                 \o Join(Texts(acc.allQueryDetails), "; "))

\* checkDomain, the validation that precedes every query
InvalidOutcome(domain) == DomainCheckOutcome(INVALID, isValidDomainFormat(domain).reason)

\* queryPromises, in push order: each provider's A query, then its NS query
QueryPlan ==
    [k \in 1..(Len(Providers) * Len(RecordTypes)) |->
        [providerName |-> Providers[((k - 1) \div Len(RecordTypes)) + 1],
         recordType |-> RecordTypes[((k - 1) % Len(RecordTypes)) + 1]]]

(***************************************************************************)
(* What the network can answer to one fetch                                *)
(***************************************************************************)

\* Response objects: a 2xx and a non-2xx one
HttpResponses ==
    {[ok |-> TRUE, status |-> 200, statusText |-> "OK"],
     [ok |-> FALSE, status |-> 500, statusText |-> "Internal Server Error"]}

\* what response.json() resolves with: null, or an object whose Status is
\* missing, NOERROR (with and without Answer records), NXDOMAIN or 2 (SERVFAIL,
\* an RCODE that is neither of the two the classifier tests for)
JsonBodies ==
    {None,
     Some([Status |-> None, Answer |-> 0]),
     Some([Status |-> Some(NOERROR), Answer |-> 0]),
     Some([Status |-> Some(NOERROR), Answer |-> 1]),
     Some([Status |-> Some(NXDOMAIN), Answer |-> 0]),
     Some([Status |-> Some(2), Answer |-> 0])}

\* err.message of the three exceptions makeDohQuery catches
FetchFailedMessage == "Failed to fetch"
JsonFailedMessage == "Unexpected token < in JSON at position 0"
NullBodyMessage == "Cannot read properties of null (reading 'Status')"

(***************************************************************************)
(* checkDomain as a process: validation, four concurrent makeDohQuery      *)
(* calls, Promise.all, classification                                      *)
(***************************************************************************)

\* a makeDohQuery call: pc is "fetch" (awaiting fetch), "json" (awaiting
\* response.json()) or "done" (its promise resolved with `result`)
QueryAwaitingFetch == [pc |-> "fetch", response |-> None, result |-> None]

NoOutcome == DomainCheckOutcome(Null, Null)

\* CheckDomainCall without the validation: the queries are always issued
CheckDomainCall_NoValidation ==
    /\ cdPc = "idle"
    /\ cdQueries' = [k \in 1..Len(QueryPlan) |-> QueryAwaitingFetch]
    /\ cdFetchCalls' = cdFetchCalls + Len(QueryPlan)
    /\ cdPc' = "waiting"
    /\ UNCHANGED <<cdOutcome, cdDomain, appVars>>

\* checkDomain up to `await Promise.all(queryPromises)`
CheckDomainCall ==
    /\ cdPc = "idle"
    /\ IF ~isValidDomainFormat(cdDomain).valid
       THEN /\ cdOutcome' = InvalidOutcome(cdDomain)
            /\ cdPc' = "done"
            /\ UNCHANGED <<cdQueries, cdFetchCalls>>
       ELSE /\ cdQueries' = [k \in 1..Len(QueryPlan) |-> QueryAwaitingFetch]
            /\ cdFetchCalls' = cdFetchCalls + Len(QueryPlan)
            /\ cdPc' = "waiting"
            /\ UNCHANGED cdOutcome
    /\ UNCHANGED <<cdDomain, appVars>>

\* makeDohQuery: `await fetch(url, ...)` rejects
FetchRejects(k) ==
    /\ cdPc = "waiting"
    /\ cdQueries[k].pc = "fetch"
    /\ cdQueries' = [cdQueries EXCEPT ![k] =
          [pc |-> "done", response |-> None,
           result |-> Some(MakeDohQueryCaught(QueryPlan[k].providerName,
                                              QueryPlan[k].recordType,
                                              FetchFailedMessage))]]
    /\ UNCHANGED <<cdDomain, cdPc, cdOutcome, cdFetchCalls, appVars>>

\* makeDohQuery: `await fetch(url, ...)` resolves with a Response
FetchResolves(k, response) ==
    /\ cdPc = "waiting"
    /\ cdQueries[k].pc = "fetch"
    /\ cdQueries' = [cdQueries EXCEPT ![k] =
          [pc |-> "json", response |-> Some(response), result |-> None]]
    /\ UNCHANGED <<cdDomain, cdPc, cdOutcome, cdFetchCalls, appVars>>

\* makeDohQuery: `await response.json()` rejects (the body is not JSON)
JsonRejects(k) ==
    /\ cdPc = "waiting"
    /\ cdQueries[k].pc = "json"
    /\ cdQueries' = [cdQueries EXCEPT ![k] =
          [pc |-> "done", response |-> @.response,
           result |-> Some(MakeDohQueryCaught(QueryPlan[k].providerName,
                                              QueryPlan[k].recordType,
                                              JsonFailedMessage))]]
    /\ UNCHANGED <<cdDomain, cdPc, cdOutcome, cdFetchCalls, appVars>>

\* makeDohQuery: `await response.json()` resolves, the function returns
JsonResolves(k, body) ==
    /\ cdPc = "waiting"
    /\ cdQueries[k].pc = "json"
    /\ cdQueries' = [cdQueries EXCEPT ![k] =
          [pc |-> "done", response |-> @.response,
           result |-> Some(MakeDohQueryParsed(QueryPlan[k].providerName,
                                              QueryPlan[k].recordType,
                                              cdQueries[k].response[1], body,
                                              NullBodyMessage))]]
    /\ UNCHANGED <<cdDomain, cdPc, cdOutcome, cdFetchCalls, appVars>>

\* the results Promise.all resolves with, in queryPromises order
QueryResults(queries) == [k \in 1..Len(queries) |-> queries[k].result[1]]

\* checkDomain from `await Promise.all(queryPromises)` to its return
CheckDomainJoin ==
    /\ cdPc = "waiting"
    /\ \A k \in 1..Len(cdQueries) : cdQueries[k].pc = "done"
    /\ cdOutcome' = Classify(QueryResults(cdQueries))
    /\ cdPc' = "done"
    /\ UNCHANGED <<cdDomain, cdQueries, cdFetchCalls, appVars>>

(***************************************************************************)
(* App.tsx: input parsing and validation of handleSubmit                   *)
(***************************************************************************)

\* baseNamesInput.replace(/[, \t]+/g, '\n'): every maximal run of commas,
\* spaces and tabs becomes one newline
ReplaceDelimiters(s) ==
    LET isDelim(i) == s[i] \in {",", " ", "\t"}
        idx == [i \in 1..Len(s) |-> i]
        kept(i) == ~isDelim(i) \/ i = 1 \/ ~isDelim(i - 1)
        at == SelectSeq(idx, kept)
    IN  [k \in 1..Len(at) |-> IF isDelim(at[k]) THEN "\n" ELSE s[at[k]]]

\* .map(d => d.trim().toLowerCase()).filter(d => d.length > 0)
TrimLowerNonEmpty(list) ==
    LET mapped == [k \in 1..Len(list) |-> ToLowerCase(Trim(list[k]))]
        nonEmpty(d) == Len(d) > 0
    IN  SelectSeq(mapped, nonEmpty)

\* handleSubmit: uniqueBaseNames
UniqueBaseNames(input) ==
    FirstOccurrences(TrimLowerNonEmpty(Split(ReplaceDelimiters(input), "\n")))

\* handleSubmit: uniqueTlds
UniqueTlds(input) ==
    FirstOccurrences(TrimLowerNonEmpty(Split(input, ",")))

\* /^[a-z0-9](?:[<alnum or extra>]{0,61}[a-z0-9])?$/i.test(s)
MatchesLabelPattern(s, extra) ==
    /\ Len(s) >= 1
    /\ Len(s) <= MaxLabelLength
    /\ IsAlnum(s[1])
    /\ IsAlnum(s[Len(s)])
    /\ \A i \in 2..(Len(s) - 1) : IsAlnum(s[i]) \/ s[i] \in extra

isValidBaseName(name) ==
    IF Includes(name, ".") THEN FALSE
    ELSE IF StartsWith(name, "-") \/ EndsWith(name, "-") THEN FALSE
    ELSE MatchesLabelPattern(name, {"-"})

isValidTld(tld) ==
    IF StartsWith(tld, ".") \/ EndsWith(tld, ".") THEN FALSE
    ELSE IF IncludesDotDot(tld) THEN FALSE
    ELSE IF Len(tld) < MinTldLength THEN FALSE
    ELSE /\ MatchesLabelPattern(tld, {".", "-"})
         /\ LET parts == Split(tld, ".") IN ~AllDigits(parts[Len(parts)])

\* the hard ceiling on the number of combinations of one submission
MaxCombinations == 50000

\* `${base}.${tld}`
FullDomain(base, tld) == base \o <<".">> \o tld

\* domainsToProcess: base names outermost, TLDs innermost
DomainsToProcess(uniqueBaseNames, uniqueTlds) ==
    [k \in 1..(Len(uniqueBaseNames) * Len(uniqueTlds)) |->
        LET base == uniqueBaseNames[((k - 1) \div Len(uniqueTlds)) + 1]
            tld == uniqueTlds[((k - 1) % Len(uniqueTlds)) + 1]
        IN  [baseName |-> base, tld |-> tld, fullDomain |-> FullDomain(base, tld)]]

\* InitialGridResults whose cells start in status Idle
InitialGridResults_Idle(uniqueBaseNames, uniqueTlds, submission) ==
    [r \in 1..Len(uniqueBaseNames) |->
        [baseName |-> uniqueBaseNames[r],
         tldResults |-> [c \in 1..Len(uniqueTlds) |->
             [tld |-> uniqueTlds[c], status |-> IDLE,
              id |-> <<submission, r, c>>, reason |-> Null]]]]

\* initialGridResults: one row per base name, one Checking cell per TLD;
\* generateUniqueId yields an id no other cell has: the submission's number
\* and the cell's position
InitialGridResults(uniqueBaseNames, uniqueTlds, submission) ==
    [r \in 1..Len(uniqueBaseNames) |->
        [baseName |-> uniqueBaseNames[r],
         tldResults |-> [c \in 1..Len(uniqueTlds) |->
             [tld |-> uniqueTlds[c], status |-> CHECKING,
              id |-> <<submission, r, c>>, reason |-> Null]]]]

(***************************************************************************)
(* App.tsx: the update batcher (flushPendingCellUpdates)                   *)
(***************************************************************************)

\* interface PendingCellUpdate; `run` is history: the run of the task that
\* produced the update (the code does not record it)
PendingCellUpdate(baseName, tld, status, reason, run) ==
    [baseName |-> baseName, tld |-> tld, status |-> status, reason |-> reason,
     run |-> run]

\* updatesByBaseName[baseName] is defined
HasRowUpdates(updates, baseName) ==
    \E k \in 1..Len(updates) : updates[k].baseName = baseName

\* updatesByBaseName[baseName][tld] is defined
HasCellUpdate(updates, baseName, tld) ==
    \E k \in 1..Len(updates) : updates[k].baseName = baseName /\ updates[k].tld = tld

\* CellUpdate that keeps the first update naming the cell
CellUpdate_FirstWins(updates, baseName, tld) ==
    LET hits == {k \in 1..Len(updates) :
                    updates[k].baseName = baseName /\ updates[k].tld = tld}
    IN  updates[CHOOSE k \in hits : \A j \in hits : k <= j]

\* updatesByBaseName[baseName][tld]: forEach assigns in buffer order, so the
\* entry left is the one of the last update naming the cell
CellUpdate(updates, baseName, tld) ==
    LET hits == {k \in 1..Len(updates) :
                    updates[k].baseName = baseName /\ updates[k].tld = tld}
    IN  updates[CHOOSE k \in hits : \A j \in hits : j <= k]

\* the property names a lower-cased label can spell that every object
\* literal inherits from Object.prototype: rowUpdates is such a literal, and
\* rowUpdates["constructor"] is the Object function when no update set it
InheritedKeys == {<<"c", "o", "n", "s", "t", "r", "u", "c", "t", "o", "r">>}

\* `if (cellUpdate)`: rowUpdates[cell.tld] is truthy, as an entry an update
\* set or as an inherited property
CellLookupFound(updates, baseName, tld) ==
    HasCellUpdate(updates, baseName, tld) \/ tld \in InheritedKeys

\* rowUpdates[cell.tld] when it is truthy: the entry of the last update naming
\* the cell, else the inherited value, whose .status and .reason are undefined
CellLookup(updates, baseName, tld) ==
    IF HasCellUpdate(updates, baseName, tld) THEN CellUpdate(updates, baseName, tld)
    ELSE [status |-> Null, reason |-> Null]

\* ApplyUpdates that adds a row for every update naming a base name the grid
\* has no row for
ApplyUpdates_AddsRows(prevResults, updatesToApply) ==
    LET known(k) == \E r \in 1..Len(prevResults) :
                        prevResults[r].baseName = updatesToApply[k].baseName
        unknown == SelectSeq([k \in 1..Len(updatesToApply) |-> k], LAMBDA k : ~known(k))
    IN  prevResults \o
        [j \in 1..Len(unknown) |->
            LET u == updatesToApply[unknown[j]]
            IN  [baseName |-> u.baseName,
                 tldResults |-> <<[tld |-> u.tld, status |-> u.status,
                                   id |-> <<0, 0, j>>, reason |-> u.reason]>>]]

\* the updater passed to setGridResults: prevResults.map(row => ...); the
\* row lookup updatesByBaseName[row.baseName] is an own entry for every base
\* name but "constructor", which no input of this module spells
ApplyUpdates(prevResults, updatesToApply) ==
    [r \in 1..Len(prevResults) |->
        LET row == prevResults[r]
        IN  IF ~HasRowUpdates(updatesToApply, row.baseName) THEN row
            ELSE [row EXCEPT !.tldResults =
                    [c \in 1..Len(row.tldResults) |->
                        LET cell == row.tldResults[c]
                        IN  IF CellLookupFound(updatesToApply, row.baseName, cell.tld)
                            THEN LET cellUpdate == CellLookup(updatesToApply, row.baseName, cell.tld)
                                 IN  [cell EXCEPT !.status = cellUpdate.status,
                                                  !.reason = cellUpdate.reason]
                            ELSE cell]]]

\* flushPendingCellUpdates, the grid it leaves
FlushedGrid(grid, buffer) ==
    IF Len(buffer) = 0 THEN grid ELSE ApplyUpdates(grid, buffer)

\* FlushIssuesUpdate without the early return on an empty buffer
FlushIssuesUpdate_NoEarlyReturn(buffer) == TRUE

\* flushPendingCellUpdates: whether the call reaches setGridResults
FlushIssuesUpdate(buffer) == Len(buffer) # 0

\* flushPendingCellUpdates, the buffer it leaves
FlushedBuffer(buffer) == <<>>

\* history: the runs whose updates a flush writes into a cell of `grid`
RunsApplied(grid, buffer) ==
    UNION {{CellUpdate(buffer, grid[r].baseName, grid[r].tldResults[c].tld).run :
              c \in {c \in 1..Len(grid[r].tldResults) :
                        HasCellUpdate(buffer, grid[r].baseName, grid[r].tldResults[c].tld)}} :
           r \in 1..Len(grid)}

(***************************************************************************)
(* App.tsx: clearAsyncOperations                                           *)
(***************************************************************************)

\* TimersAfterClear that leaves the interval registered
TimersAfterClear_KeepsTimer(registered, ref) == registered

\* clearInterval(flushIntervalRef.current) when the ref holds an id
TimersAfterClear(registered, ref) ==
    IF ref # 0 THEN registered \ {ref} ELSE registered

(***************************************************************************)
(* App.tsx: the filtered and sorted view of the grid                       *)
(***************************************************************************)

\* the initial value of filterOptions, also set by handleClear and
\* handleClearFilters
NoFilters ==
    [baseNameQuery |-> <<>>, hasAvailable |-> FALSE, noTaken |-> FALSE,
     noInvalid |-> FALSE, bestConsonant |-> FALSE]

\* isAnyFilterActive
isAnyFilterActive(options) ==
    \/ options.baseNameQuery # <<>>
    \/ options.hasAvailable
    \/ options.noTaken
    \/ options.noInvalid
    \/ options.bestConsonant

\* s.includes(needle) for strings
IncludesString(s, needle) ==
    \E i \in 0..(Len(s) - Len(needle)) : SubSeq(s, i + 1, i + Len(needle)) = needle

VOWELS == {"a", "e", "i", "o", "u"}

\* isVowel: VOWELS.includes(char.toLowerCase())
isVowel(char) == ToLowerCase(<<char>>)[1] \in VOWELS

\* startsWithConsonant: the first character, lower-cased, matches /^[a-z]$/
\* and is no vowel
startsWithConsonant(name) ==
    /\ Len(name) > 0
    /\ ToLowerCase(<<name[1]>>)[1] \in LowerChars
    /\ ~isVowel(name[1])

hasVowel(name) == \E i \in 1..Len(name) : isVowel(name[i])

\* filteredResults: the rows every active filter keeps, in grid order
filteredResults(grid, options) ==
    LET \* row.tldResults.some(cell => cell.status === status)
        SomeCellIs(row, status) ==
            \E c \in 1..Len(row.tldResults) : row.tldResults[c].status = status
        keep(row) ==
            /\ options.baseNameQuery # <<>> =>
                  IncludesString(ToLowerCase(row.baseName), ToLowerCase(options.baseNameQuery))
            /\ options.hasAvailable => SomeCellIs(row, AVAILABLE)
            /\ options.noTaken => ~SomeCellIs(row, TAKEN)
            /\ options.noInvalid => ~SomeCellIs(row, INVALID)
            /\ options.bestConsonant =>
                  /\ startsWithConsonant(row.baseName)
                  /\ Len(row.baseName) > 1 => hasVowel(row.baseName)
    IN  SelectSeq(grid, keep)

\* const statusOrder
statusOrder ==
    [status \in DomainStatus |->
        CASE status = AVAILABLE -> 0
          [] status = CHECKING -> 1
          [] status = IDLE -> 2
          [] status = INVALID -> 3
          [] OTHER -> 4]

\* the sort key of the base-name column
BaseNameKey == <<"b", "a", "s", "e", "N", "a", "m", "e">>

\* the sign of a.localeCompare(b) for two base names (lower-case letters,
\* digits and hyphens): the first difference decides, by the characters'
\* collation order (the hyphen, the digits, the letters), and a proper prefix
\* is first
RECURSIVE LocaleCompare(_, _)
LocaleCompare(a, b) ==
    LET CollationOrder ==
            <<"-", "0", "1", "2", "3", "4", "5", "6", "7", "8", "9",
              "a", "b", "c", "d", "e", "f", "g", "h", "i", "j", "k", "l", "m",
              "n", "o", "p", "q", "r", "s", "t", "u", "v", "w", "x", "y", "z">>
        CollationRank(char) ==
            CHOOSE k \in 1..Len(CollationOrder) : CollationOrder[k] = char
    IN  IF Len(a) = 0 THEN (IF Len(b) = 0 THEN 0 ELSE -1)
        ELSE IF Len(b) = 0 THEN 1
        ELSE IF CollationRank(a[1]) < CollationRank(b[1]) THEN -1
        ELSE IF CollationRank(a[1]) > CollationRank(b[1]) THEN 1
        ELSE LocaleCompare(Tail(a), Tail(b))

\* row.tldResults.find(r => r.tld === key): None or the first such cell
FindCell(row, key) ==
    LET hits == {c \in 1..Len(row.tldResults) : row.tldResults[c].tld = key}
    IN  IF hits = {} THEN None
        ELSE Some(row.tldResults[CHOOSE c \in hits : \A d \in hits : c <= d])

\* the sign of aStatus - bStatus, where a row without the cell has Infinity
\* (Infinity - Infinity is NaN, which sort takes for 0)
StatusDifference(aTldResult, bTldResult) ==
    IF aTldResult = None THEN (IF bTldResult = None THEN 0 ELSE 1)
    ELSE IF bTldResult = None THEN -1
    ELSE IF statusOrder[aTldResult[1].status] < statusOrder[bTldResult[1].status] THEN -1
    ELSE IF statusOrder[aTldResult[1].status] > statusOrder[bTldResult[1].status] THEN 1
    ELSE 0

\* the comparator passed to sortableItems.sort, by its sign
CompareRows(a, b, key) ==
    IF key = BaseNameKey THEN LocaleCompare(a.baseName, b.baseName)
    ELSE StatusDifference(FindCell(a, key), FindCell(b, key))

\* Array.prototype.sort with that comparator: a stable sort, so a row comes
\* after the rows that compare lower and after the equal rows that precede it
SortRows(rows, key) ==
    LET before(j, i) ==
            \/ CompareRows(rows[j], rows[i], key) < 0
            \/ CompareRows(rows[j], rows[i], key) = 0 /\ j < i
        place(i) == 1 + Cardinality({j \in 1..Len(rows) : before(j, i)})
    IN  [p \in 1..Len(rows) |-> rows[CHOOSE i \in 1..Len(rows) : place(i) = p]]

\* Array.prototype.reverse
Reverse(rows) == [p \in 1..Len(rows) |-> rows[Len(rows) + 1 - p]]

\* sortedAndFilteredResults, lines 348-365, for the filtered rows
SortedRows(rows, config) ==
    IF config = None THEN rows
    ELSE IF config[1].direction = "descending" THEN Reverse(SortRows(rows, config[1].key))
    ELSE SortRows(rows, config[1].key)

\* sortedAndFilteredResults
sortedAndFilteredResults(grid, options, config) ==
    SortedRows(filteredResults(grid, options), config)

\* SortDirection that never toggles
SortDirection_AlwaysAscending(config, key) == "ascending"

\* handleSortRequest, lines 340-343: the direction of the new sort
SortDirection(config, key) ==
    IF config # None /\ config[1].key = key /\ config[1].direction = "ascending"
    THEN "descending" ELSE "ascending"

\* interface SortConfig
SortConfig(key, direction) == [key |-> key, direction |-> direction]

\* the keys the table's column headers request a sort for: the base-name
\* column and the TLD columns it is given
SortKeys(tlds) == {BaseNameKey} \cup {tlds[c] : c \in 1..Len(tlds)}

(***************************************************************************)
(* Bounds of the model and the inputs it draws                             *)
(***************************************************************************)

\* handleSubmit is called at most this many times
MaxSubmits == 2

\* texts typed into the base-name area: one name, two names (upper case and
\* a space delimiter), a name with a leading hyphen, delimiters only
BaseNameInputs ==
    {<<"a">>, <<"a", " ", "B">>, <<"-", "a">>, <<",">>}

\* texts typed into the TLD input: one TLD, an all-numeric one
TldInputs ==
    {<<"i", "o">>, <<"1", "1">>}

\* a 2xx response whose body carries the RCODE `status`
AnsweredWith(k, status, answers) ==
    MakeDohQueryParsed(QueryPlan[k].providerName, QueryPlan[k].recordType,
                       [ok |-> TRUE, status |-> 200, statusText |-> "OK"],
                       Some([Status |-> Some(status), Answer |-> answers]),
                       NullBodyMessage)

\* the result sets Promise.all resolves with in the orchestrator's runs:
\* NXDOMAIN from all four queries; NOERROR with records from the first query
SampleResults ==
    {[k \in 1..Len(QueryPlan) |-> AnsweredWith(k, NXDOMAIN, 0)],
     [k \in 1..Len(QueryPlan) |->
         IF k = 1 THEN AnsweredWith(k, NOERROR, 1) ELSE AnsweredWith(k, NXDOMAIN, 0)]}

(***************************************************************************)
(* App.tsx: the event handlers and the promise chain of one check          *)
(***************************************************************************)

\* a checkDomain call and the .then/.catch/.finally chain attached to it.
\* state: "resolved" when checkDomain returned before any await (the domain
\* failed validation; its handlers run as microtasks before any other event),
\* "fetching" while its queries are in flight, "settled" once .finally ran
Task(run, item, state) ==
    [run |-> run, baseName |-> item.baseName, tld |-> item.tld,
     fullDomain |-> item.fullDomain, state |-> state]

\* the makeDohQuery calls of a task that are in flight: the four of the plan
\* from the call of checkDomain until its promise settles, none for a domain
\* that failed validation
QueriesInFlight(task) == IF task.state = "fetching" THEN Len(QueryPlan) ELSE 0

\* Dispatch that starts the first check only and leaves the others queued
Dispatch_OneAtATime(run, domains) ==
    [k \in 1..Len(domains) |->
        Task(run, domains[k],
             IF k > 1 THEN "queued"
             ELSE IF isValidDomainFormat(domains[k].fullDomain).valid
             THEN "fetching" ELSE "resolved")]

\* domainsToProcess.forEach(item => domainCheckerService.checkDomain(...))
Dispatch(run, domains) ==
    [k \in 1..Len(domains) |->
        Task(run, domains[k],
             IF isValidDomainFormat(domains[k].fullDomain).valid
             THEN "fetching" ELSE "resolved")]

\* promise handlers are queued: no timer or user event runs before them
MicrotasksPending == \E i \in 1..Len(tasks) : tasks[i].state = "resolved"

\* InputError that does not look at the TLDs' validity
InputError_IgnoresInvalidTlds(uniqueBaseNames, uniqueTlds) ==
    IF Len(uniqueBaseNames) = 0 THEN "Please enter at least one base name."
    ELSE IF Len(uniqueTlds) = 0 THEN "Please enter at least one TLD."
    ELSE IF \E k \in 1..Len(uniqueBaseNames) : ~isValidBaseName(uniqueBaseNames[k])
    THEN "Invalid base name(s)"
    ELSE Null

\* handleSubmit, lines 188-207: the message of the input error, or Null
InputError(uniqueBaseNames, uniqueTlds) ==
    IF Len(uniqueBaseNames) = 0 THEN "Please enter at least one base name."
    ELSE IF Len(uniqueTlds) = 0 THEN "Please enter at least one TLD."
    ELSE IF \E k \in 1..Len(uniqueBaseNames) : ~isValidBaseName(uniqueBaseNames[k])
    THEN "Invalid base name(s)"
    ELSE IF \E k \in 1..Len(uniqueTlds) : ~isValidTld(uniqueTlds[k])
    THEN "Invalid TLD(s)"
    ELSE Null

\* ExceedsCeiling with the comparison off by one (>= for >)
ExceedsCeiling_AtCeiling(count) == count >= MaxCombinations

\* handleSubmit, line 234
ExceedsCeiling(count) == count > MaxCombinations

\* IsTerminalCompletion testing the counter as it was before the increment
IsTerminalCompletion_BeforeIncrement(completed, total) == completed - 1 = total

\* handleSubmit, line 274
IsTerminalCompletion(completed, total) == completed = total

\* onChange of the base-name text area (disabled while loading)
SetBaseNamesInput(text) ==
    /\ ~MicrotasksPending
    /\ ~isLoading
    /\ baseNamesInput' = text
    /\ flushIssuedUpdate' = FALSE
    /\ UNCHANGED <<tldsInput, gridResults, parsedTldsForTable, isLoading,
                   errorMessage, startTime, timeTaken, sortConfig,
                   pendingCellUpdates, flushInterval, completedChecks,
                   totalChecks, timers, tasks, submissions, runId, staleEffects,
                   filterOptions, cdVars>>

\* onChange of the TLD input (disabled while loading)
SetTldsInput(text) ==
    /\ ~MicrotasksPending
    /\ ~isLoading
    /\ tldsInput' = text
    /\ flushIssuedUpdate' = FALSE
    /\ UNCHANGED <<baseNamesInput, gridResults, parsedTldsForTable, isLoading,
                   errorMessage, startTime, timeTaken, sortConfig,
                   pendingCellUpdates, flushInterval, completedChecks,
                   totalChecks, timers, tasks, submissions, runId, staleEffects,
                   filterOptions, cdVars>>

\* handleSubmit, called by the "Check Domains" button, which is disabled
\* while loading or while either input is blank
HandleSubmit ==
    /\ ~MicrotasksPending
    /\ ~isLoading
    /\ Len(Trim(baseNamesInput)) > 0
    /\ Len(Trim(tldsInput)) > 0
    /\ submissions < MaxSubmits
    /\ LET uniqueBaseNames == UniqueBaseNames(baseNamesInput)
           uniqueTlds == UniqueTlds(tldsInput)
           inputError == InputError(uniqueBaseNames, uniqueTlds)
           count == Len(uniqueBaseNames) * Len(uniqueTlds)
           cleared == TimersAfterClear(timers, flushInterval)
           id == submissions + 1
       IN  /\ submissions' = submissions + 1
           /\ timeTaken' = Null
           /\ sortConfig' = None
           /\ pendingCellUpdates' = <<>>
           /\ completedChecks' = 0
           /\ IF inputError # Null
              THEN /\ errorMessage' = inputError
                   /\ gridResults' = <<>>
                   /\ parsedTldsForTable' = <<>>
                   /\ startTime' = Null
                   /\ totalChecks' = 0
                   /\ flushInterval' = 0
                   /\ timers' = cleared
                   /\ UNCHANGED <<isLoading, tasks, runId>>
              ELSE IF ExceedsCeiling(count)
              THEN /\ errorMessage' = "Generated more than 50,000 domain combinations. Please reduce base names or TLDs."
                   /\ isLoading' = FALSE
                   /\ gridResults' = <<>>
                   /\ parsedTldsForTable' = <<>>
                   /\ startTime' = Null
                   /\ totalChecks' = 0
                   /\ flushInterval' = 0
                   /\ timers' = cleared
                   /\ UNCHANGED <<tasks, runId>>
              ELSE IF count = 0
              THEN /\ errorMessage' = "No valid domain combinations to check."
                   /\ isLoading' = FALSE
                   /\ gridResults' = InitialGridResults(uniqueBaseNames, uniqueTlds, id)
                   /\ parsedTldsForTable' = uniqueTlds
                   /\ startTime' = Null
                   /\ totalChecks' = 0
                   /\ flushInterval' = 0
                   /\ timers' = cleared
                   /\ UNCHANGED <<tasks, runId>>
              ELSE /\ errorMessage' = Null
                   /\ isLoading' = TRUE
                   /\ parsedTldsForTable' = uniqueTlds
                   /\ startTime' = "started"
                   /\ gridResults' = InitialGridResults(uniqueBaseNames, uniqueTlds, id)
                   /\ totalChecks' = count
                   /\ flushInterval' = id
                   /\ timers' = cleared \cup {id}
                   /\ runId' = runId + 1
                   /\ tasks' = tasks \o Dispatch(runId + 1,
                                   DomainsToProcess(uniqueBaseNames, uniqueTlds))
    /\ flushIssuedUpdate' = FALSE
    /\ UNCHANGED <<baseNamesInput, tldsInput, staleEffects, filterOptions, cdVars>>

\* handleClear, called by the "Clear" button, which is disabled only while
\* loading with both inputs empty
HandleClear ==
    /\ ~MicrotasksPending
    /\ ~(isLoading /\ Len(baseNamesInput) = 0 /\ Len(tldsInput) = 0)
    /\ baseNamesInput' = <<>>
    /\ tldsInput' = <<>>
    /\ gridResults' = <<>>
    /\ parsedTldsForTable' = <<>>
    /\ isLoading' = FALSE
    /\ errorMessage' = Null
    /\ timeTaken' = Null
    /\ startTime' = Null
    /\ sortConfig' = None
    /\ filterOptions' = NoFilters
    /\ timers' = TimersAfterClear(timers, flushInterval)
    /\ flushInterval' = 0
    /\ pendingCellUpdates' = <<>>
    /\ completedChecks' = 0
    /\ totalChecks' = 0
    /\ flushIssuedUpdate' = FALSE
    /\ UNCHANGED <<tasks, submissions, runId, staleEffects, cdVars>>

\* handleFilterChange, called by the inputs of the filter panel, which is
\* rendered when the grid has rows and no run is loading
HandleFilterChange(name, value) ==
    /\ ~MicrotasksPending
    /\ Len(gridResults) > 0
    /\ ~isLoading
    /\ filterOptions' = [filterOptions EXCEPT ![name] = value]
    /\ flushIssuedUpdate' = FALSE
    /\ UNCHANGED <<baseNamesInput, tldsInput, gridResults, parsedTldsForTable,
                   isLoading, errorMessage, startTime, timeTaken, sortConfig,
                   pendingCellUpdates, flushInterval, completedChecks,
                   totalChecks, timers, tasks, submissions, runId, staleEffects,
                   cdVars>>

\* handleClearFilters, called by the "Clear Filters" button of the filter
\* panel, which is rendered while a filter is active
HandleClearFilters ==
    /\ ~MicrotasksPending
    /\ Len(gridResults) > 0
    /\ ~isLoading
    /\ isAnyFilterActive(filterOptions)
    /\ filterOptions' = NoFilters
    /\ sortConfig' = None
    /\ flushIssuedUpdate' = FALSE
    /\ UNCHANGED <<baseNamesInput, tldsInput, gridResults, parsedTldsForTable,
                   isLoading, errorMessage, startTime, timeTaken,
                   pendingCellUpdates, flushInterval, completedChecks,
                   totalChecks, timers, tasks, submissions, runId, staleEffects,
                   cdVars>>

\* handleSortRequest, called by a column header of the results table, which
\* is rendered when the grid and the filtered view have rows
HandleSortRequest(key) ==
    /\ ~MicrotasksPending
    /\ Len(gridResults) > 0
    /\ Len(filteredResults(gridResults, filterOptions)) > 0
    /\ key \in SortKeys(parsedTldsForTable)
    /\ sortConfig' = Some(SortConfig(key, SortDirection(sortConfig, key)))
    /\ flushIssuedUpdate' = FALSE
    /\ UNCHANGED <<baseNamesInput, tldsInput, gridResults, parsedTldsForTable,
                   isLoading, errorMessage, startTime, timeTaken, filterOptions,
                   pendingCellUpdates, flushInterval, completedChecks,
                   totalChecks, timers, tasks, submissions, runId, staleEffects,
                   cdVars>>

\* the interval registered under `id` fires: flushPendingCellUpdates
FlushTimerFires(id) ==
    /\ ~MicrotasksPending
    /\ id \in timers
    /\ gridResults' = FlushedGrid(gridResults, pendingCellUpdates)
    /\ pendingCellUpdates' = FlushedBuffer(pendingCellUpdates)
    /\ flushIssuedUpdate' = FlushIssuesUpdate(pendingCellUpdates)
    /\ staleEffects' = staleEffects \cup
          (IF \E run \in RunsApplied(gridResults, pendingCellUpdates) : run # runId
           THEN {"applied"} ELSE {})
    /\ UNCHANGED <<baseNamesInput, tldsInput, parsedTldsForTable, isLoading,
                   errorMessage, startTime, timeTaken, sortConfig, flushInterval,
                   completedChecks, totalChecks, timers, tasks, submissions,
                   runId, filterOptions, cdVars>>

\* checkDomain(item.fullDomain) for the task's domain, given what its queries
\* answered
CheckDomainOutcome(fullDomain, results) ==
    IF ~isValidDomainFormat(fullDomain).valid THEN InvalidOutcome(fullDomain)
    ELSE Classify(results)

\* the promise of task i is pending and its handlers can run next: handlers
\* of promises that resolved without awaiting run before anything else
CanSettle(i) ==
    /\ tasks[i].state # "settled"
    /\ tasks[i].state = "fetching" => ~MicrotasksPending

\* the chain attached to task i's promise runs: .then or .catch enqueues
\* `update`, .finally counts the settlement and, on terminal completion,
\* stops the timer, flushes and signals the end of the run
Settlement(i, update) ==
    /\ CanSettle(i)
    /\ LET task == tasks[i]
           enqueued == Append(pendingCellUpdates, update)
           completed == completedChecks + 1
           counted == IF task.run # runId /\ totalChecks > 0 THEN {"counted"} ELSE {}
       IN  /\ tasks' = [tasks EXCEPT ![i].state = "settled"]
           /\ completedChecks' = completed
           /\ IF IsTerminalCompletion(completed, totalChecks)
              THEN /\ timers' = TimersAfterClear(timers, flushInterval)
                   /\ flushInterval' = 0
                   /\ gridResults' = FlushedGrid(gridResults, enqueued)
                   /\ pendingCellUpdates' = FlushedBuffer(enqueued)
                   /\ flushIssuedUpdate' = FlushIssuesUpdate(enqueued)
                   /\ isLoading' = FALSE
                   /\ timeTaken' = IF startTime # Null THEN "elapsed" ELSE timeTaken
                   /\ staleEffects' = staleEffects \cup counted \cup
                         (IF \E run \in RunsApplied(gridResults, enqueued) : run # runId
                          THEN {"applied"} ELSE {})
              ELSE /\ pendingCellUpdates' = enqueued
                   /\ flushIssuedUpdate' = FALSE
                   /\ staleEffects' = staleEffects \cup counted
                   /\ UNCHANGED <<timers, flushInterval, gridResults, isLoading, timeTaken>>
    /\ UNCHANGED <<baseNamesInput, tldsInput, parsedTldsForTable, errorMessage,
                   startTime, sortConfig, filterOptions, totalChecks, submissions,
                   runId, cdVars>>

\* .then(checkOutcome => ...): the update for the outcome checkDomain
\* resolved with
ResolutionUpdate(task, checkOutcome) ==
    PendingCellUpdate(task.baseName, task.tld, checkOutcome.status,
                      checkOutcome.reason, task.run)

\* RejectionUpdate that leaves the cell's status as it was
RejectionUpdate_StillChecking(task) ==
    PendingCellUpdate(task.baseName, task.tld, CHECKING, Null, task.run)

\* .catch(error => ...): the update for a rejected checkDomain promise
RejectionUpdate(task) ==
    PendingCellUpdate(task.baseName, task.tld, INVALID, "Error during check", task.run)

\* the promise of task i resolves with the outcome for `results`
TaskSettles(i, results) ==
    Settlement(i, ResolutionUpdate(tasks[i],
                     CheckDomainOutcome(tasks[i].fullDomain, results)))

\* the promise of task i rejects
TaskRejects(i) ==
    Settlement(i, RejectionUpdate(tasks[i]))

(***************************************************************************)
(* The orchestrator: specification Spec                                    *)
(***************************************************************************)

AppInit ==
    /\ baseNamesInput = <<>>
    /\ tldsInput = <<>>
    /\ gridResults = <<>>
    /\ parsedTldsForTable = <<>>
    /\ isLoading = FALSE
    /\ errorMessage = Null
    /\ startTime = Null
    /\ timeTaken = Null
    /\ sortConfig = None
    /\ filterOptions = NoFilters
    /\ pendingCellUpdates = <<>>
    /\ flushInterval = 0
    /\ completedChecks = 0
    /\ totalChecks = 0
    /\ timers = {}
    /\ tasks = <<>>
    /\ submissions = 0
    /\ runId = 0
    /\ staleEffects = {}
    /\ flushIssuedUpdate = FALSE

CdIdle ==
    /\ cdPc = "idle"
    /\ cdQueries = <<>>
    /\ cdOutcome = NoOutcome
    /\ cdFetchCalls = 0

Init ==
    /\ AppInit
    /\ CdIdle
    /\ cdDomain = <<>>

Next ==
    \/ \E text \in BaseNameInputs : SetBaseNamesInput(text)
    \/ \E text \in TldInputs : SetTldsInput(text)
    \/ HandleSubmit
    \/ HandleClear
    \/ \E id \in timers : FlushTimerFires(id)
    \/ \E i \in 1..Len(tasks) : \E results \in SampleResults : TaskSettles(i, results)

Spec == Init /\ [][Next]_vars

(***************************************************************************)
(* One checkDomain call: specification SpecCheckDomain                     *)
(***************************************************************************)

\* checkDomain is called with every string of at most this many characters
MaxDomainChars == 4

\* the characters of those strings: a letter, a digit, the hyphen, the dot
DomainChars == {"a", "1", "-", "."}

\* c repeated n times
RepeatChar(c, n) == [i \in 1..n |-> c]

\* labels of the letter a with the given lengths, joined by dots
RECURSIVE LabelsOfLengths(_)
LabelsOfLengths(lengths) ==
    IF Len(lengths) = 0 THEN <<>>
    ELSE IF Len(lengths) = 1 THEN RepeatChar("a", lengths[1])
    ELSE RepeatChar("a", lengths[1]) \o <<".">> \o LabelsOfLengths(Tail(lengths))

\* longer arguments: upper case and surrounding blanks, a character outside
\* the alphabet, a trailing hyphen in an inner label, a name of 254
\* characters, a label of 64 characters
LongDomainInputs ==
    {<<" ", "A", ".", "I", "o", " ">>,
     <<"a", "_", "b", ".", "i", "o">>,
     <<"a", "-", ".", "c", "o", ".", "u", "k">>,
     LabelsOfLengths(<<63, 63, 63, 62>>),
     LabelsOfLengths(<<64, 2>>)}

DomainInputs ==
    UNION {[1..n -> DomainChars] : n \in 0..MaxDomainChars} \cup LongDomainInputs

InitCheckDomain ==
    /\ AppInit
    /\ CdIdle
    /\ cdDomain \in DomainInputs

NextCheckDomain ==
    \/ CheckDomainCall
    \/ \E k \in 1..Len(QueryPlan) : FetchRejects(k)
    \/ \E k \in 1..Len(QueryPlan) : \E response \in HttpResponses : FetchResolves(k, response)
    \/ \E k \in 1..Len(QueryPlan) : JsonRejects(k)
    \/ \E k \in 1..Len(QueryPlan) : \E body \in JsonBodies : JsonResolves(k, body)
    \/ CheckDomainJoin

SpecCheckDomain == InitCheckDomain /\ [][NextCheckDomain]_vars

(***************************************************************************)
(* Properties of one checkDomain call (under SpecCheckDomain)              *)
(***************************************************************************)

\* the call has returned for a domain that passed validation
CdClassified ==
    /\ cdPc = "done"
    /\ Len(cdQueries) = Len(QueryPlan)
    /\ isValidDomainFormat(cdDomain).valid

CdResult(k) == cdQueries[k].result[1]

CdSomeNoError == \E k \in 1..Len(cdQueries) : CdResult(k).dnsStatus = Some(NOERROR)

CdAllNxDomain == \A k \in 1..Len(cdQueries) : CdResult(k).dnsStatus = Some(NXDOMAIN)

\* C5: for a valid domain, when at least one of the four query results has
\* dnsStatus 0 (NOERROR), checkDomain returns Taken, whatever the other
\* three results are.
C5_NoErrorIsTaken ==
    (CdClassified /\ CdSomeNoError) => cdOutcome.status = TAKEN

\* C5 witness: a verdict reached with one NOERROR next to an NXDOMAIN, an
\* error and another status code
C5_Witness ==
    /\ CdClassified
    /\ Cardinality({k \in 1..Len(cdQueries) : CdResult(k).dnsStatus = Some(NOERROR)}) = 1
    /\ \E k \in 1..Len(cdQueries) : CdResult(k).dnsStatus = Some(NXDOMAIN)
    /\ \E k \in 1..Len(cdQueries) : CdResult(k).error # Null /\ CdResult(k).dnsStatus = None
    /\ \E k \in 1..Len(cdQueries) : CdResult(k).dnsStatus = Some(2)
    /\ cdOutcome.status = TAKEN

\* C6: for a valid domain, checkDomain returns Available when every one of
\* the four query results has dnsStatus 3 (NXDOMAIN), and only then.
C6_AvailableIffAllNxDomain ==
    CdClassified => (cdOutcome.status = AVAILABLE <=> CdAllNxDomain)

\* C6 witness: four NXDOMAIN results and the verdict Available
C6_Witness ==
    /\ CdClassified
    /\ CdAllNxDomain
    /\ cdOutcome.status = AVAILABLE

\* C7: for a valid domain where no query result has dnsStatus 0 but at least
\* one carries an error or a DNS status other than 3, checkDomain returns
\* Taken; a non-2xx result carrying both an error and a dnsStatus is such a
\* result.
C7_ErrorOrOtherStatusIsTaken ==
    (/\ CdClassified
     /\ ~CdSomeNoError
     /\ \E k \in 1..Len(cdQueries) :
            CdResult(k).error # Null \/ CdResult(k).dnsStatus # Some(NXDOMAIN))
    => cdOutcome.status = TAKEN

\* the rejections the claim lists, stated on the normalized string
ListedFormatError(domain) ==
    LET n == Trim(ToLowerCase(domain))
        labels == Split(n, ".")
    IN  \/ Len(n) < 3
        \/ Len(n) > 253
        \/ IncludesDotDot(n)
        \/ \E k \in 1..Len(labels) : StartsWith(labels[k], "-") \/ EndsWith(labels[k], "-")
        \/ Len(labels[Len(labels)]) < 2
        \/ AllDigits(labels[Len(labels)])

\* C8: for every string the format validator rejects (consecutive dots, a
\* label with a leading or trailing hyphen, a final label under 2 characters
\* or all numeric, a length outside 3..253), checkDomain returns Invalid with
\* the validator's message as reason and issues no DNS-over-HTTPS query.
C8_InvalidWithoutQuery ==
    (~isValidDomainFormat(cdDomain).valid \/ ListedFormatError(cdDomain))
    => /\ cdFetchCalls = 0
       /\ cdQueries = <<>>
       /\ cdPc \in {"idle", "done"}
       /\ cdPc = "done" =>
            /\ cdOutcome.status = INVALID
            /\ cdOutcome.reason # Null
            /\ cdOutcome.reason = isValidDomainFormat(cdDomain).reason

\* C8 witness: the call returned Invalid for a name with a label that ends
\* with a hyphen, without a query
C8_Witness ==
    /\ cdPc = "done"
    /\ cdDomain = <<"a", "-", ".", "c", "o", ".", "u", "k">>
    /\ cdOutcome = DomainCheckOutcome(INVALID, "Labels cannot start or end with a hyphen.")
    /\ cdFetchCalls = 0

(***************************************************************************)
(* Submissions at the ceiling: specification SpecCeiling                   *)
(***************************************************************************)

DigitOf == <<"0", "1", "2", "3", "4", "5", "6", "7", "8", "9">>

\* the text "<p>001,<p>002,...,<p>n": n distinct names of a letter and three
\* digits, separated by commas
NameList(p, n) ==
    [k \in 1..(5 * n - 1) |->
        LET i == ((k - 1) \div 5) + 1
            at == (k - 1) % 5
        IN  IF at = 0 THEN p
            ELSE IF at = 1 THEN DigitOf[((i \div 100) % 10) + 1]
            ELSE IF at = 2 THEN DigitOf[((i \div 10) % 10) + 1]
            ELSE IF at = 3 THEN DigitOf[(i % 10) + 1]
            ELSE ","]

\* base-name texts of 250 and 251 names, TLD texts of 200 and 201 TLDs:
\* 250 x 200 is the ceiling and the other products of these are above it;
\* with a single TLD the product is far below it
CeilingBaseNameInputs == {NameList("n", 250), NameList("n", 251)}
CeilingTldInputs == {NameList("t", 200), NameList("t", 201), NameList("t", 1)}

NextCeiling ==
    \/ \E text \in CeilingBaseNameInputs : SetBaseNamesInput(text)
    \/ \E text \in CeilingTldInputs : SetTldsInput(text)
    \/ HandleSubmit
    \/ HandleClear

SpecCeiling == Init /\ [][NextCeiling]_vars

(***************************************************************************)
(* Properties of the orchestrator (under Spec)                             *)
(***************************************************************************)

FinalStatuses == {AVAILABLE, TAKEN, INVALID}

\* the cells of the grid, as <<row, column>> positions
CellsOf(grid) ==
    {rc \in (1..Len(grid)) \X (1..Len(parsedTldsForTable)) :
        rc[2] <= Len(grid[rc[1]].tldResults)}

\* the tasks dispatched by the latest accepted submission
CurrentTasks == {i \in 1..Len(tasks) : tasks[i].run = runId}

\* the grid shown is the one of the latest accepted submission
RunOnDisplay == runId > 0 /\ Len(gridResults) > 0

\* C1: results of checks of a previous run that arrive after a fresh
\* submission or a clear are discarded: no outcome of a task dispatched in an
\* earlier run is applied to a grid cell of the current run, and no such
\* settlement counts towards the current run's completedChecks.
C1_StaleResultsDiscarded == staleEffects = {}

\* C2: in every reachable state completedChecks is at most totalChecks.
C2_CompletedAtMostTotal == completedChecks <= totalChecks

\* C3: within one submission every Combination is dispatched exactly once,
\* and its cell changes from Checking to Available, Taken or Invalid exactly
\* once: a cell with a final status keeps its value until the next
\* submission or clear, and no cell returns to Checking.
C3_CheckedExactlyOnce ==
    [][/\ \A i, j \in 1..Len(tasks') :
            (/\ i # j
             /\ tasks'[i].run = tasks'[j].run
             /\ tasks'[i].baseName = tasks'[j].baseName) => tasks'[i].tld # tasks'[j].tld
       /\ (/\ submissions' = submissions
           /\ Len(gridResults) > 0
           /\ Len(gridResults') = Len(gridResults))
          => \A rc \in CellsOf(gridResults) :
                LET before == gridResults[rc[1]].tldResults[rc[2]]
                    after == gridResults'[rc[1]].tldResults[rc[2]]
                IN  /\ before.status \in FinalStatuses => after = before
                    /\ after.status \in FinalStatuses \cup {before.status}]_vars

\* C4: once every Combination has settled, completedChecks equals
\* totalChecks and the pending-update buffer is empty.
C4_SettledMeansComplete ==
    (RunOnDisplay /\ \A i \in CurrentTasks : tasks[i].state = "settled")
    => /\ completedChecks = totalChecks
       /\ pendingCellUpdates = <<>>

\* a step in which a settlement makes completedChecks equal to totalChecks
CompletionStep ==
    /\ completedChecks' = completedChecks + 1
    /\ completedChecks' = totalChecks'

\* C9: at the step in which completedChecks becomes equal to totalChecks the
\* orchestrator stops the flush timer, performs one final flush that empties
\* the buffer (every buffered update and the settling task's own update
\* reach the grid) and sets the running flag to false, all in that step; the
\* finished signal (the flag falling with the elapsed time reported) is
\* raised at no other step.
C9_TerminalCompletionStep ==
    [][/\ CompletionStep =>
            /\ timers' = {}
            /\ flushInterval' = 0
            /\ pendingCellUpdates' = <<>>
            /\ isLoading' = FALSE
            /\ timeTaken' = "elapsed"
            /\ Len(gridResults') = Len(gridResults)
            /\ LET i == CHOOSE i \in 1..Len(tasks) : tasks'[i].state # tasks[i].state
               IN  \A rc \in CellsOf(gridResults) :
                     LET row == gridResults[rc[1]]
                         before == row.tldResults[rc[2]]
                         after == gridResults'[rc[1]].tldResults[rc[2]]
                     IN  IF tasks[i].baseName = row.baseName /\ tasks[i].tld = before.tld
                         THEN after.status \in FinalStatuses
                         ELSE IF HasCellUpdate(pendingCellUpdates, row.baseName, before.tld)
                         THEN LET u == CellUpdate(pendingCellUpdates, row.baseName, before.tld)
                              IN  after = [before EXCEPT !.status = u.status, !.reason = u.reason]
                         ELSE after = before
       /\ ((isLoading /\ ~isLoading' /\ timeTaken' # Null)
           \/ (timeTaken' # timeTaken /\ timeTaken' # Null)) => CompletionStep]_vars

\* C9 witness: a run of two Combinations ended by its second settlement,
\* with the timer stopped, the buffer flushed and both cells final
C9_Witness ==
    /\ totalChecks = 2
    /\ completedChecks = 2
    /\ staleEffects = {}
    /\ ~isLoading
    /\ timeTaken = "elapsed"
    /\ timers = {}
    /\ flushInterval = 0
    /\ pendingCellUpdates = <<>>
    /\ Len(gridResults) = 2
    /\ \A rc \in CellsOf(gridResults) :
          gridResults[rc[1]].tldResults[rc[2]].status \in FinalStatuses

(***************************************************************************)
(* Properties of submissions at the ceiling (under SpecCeiling)            *)
(***************************************************************************)

\* C10: a submission whose cross product has more than 50,000 combinations
\* (or none) is refused: no task is dispatched, an error message is set and
\* no flush timer is started; a submission of exactly 50,000 combinations is
\* accepted and dispatched.
C10_CeilingRefusal ==
    [][submissions' = submissions + 1 =>
         LET uniqueBaseNames == UniqueBaseNames(baseNamesInput)
             uniqueTlds == UniqueTlds(tldsInput)
             count == Len(uniqueBaseNames) * Len(uniqueTlds)
         IN  /\ (count > 50000 \/ count = 0) =>
                   /\ tasks' = tasks
                   /\ errorMessage' # Null
                   /\ timers' = {}
                   /\ flushInterval' = 0
                   /\ isLoading' = FALSE
             /\ (count = 50000 /\ InputError(uniqueBaseNames, uniqueTlds) = Null) =>
                   /\ Len(tasks') = Len(tasks) + 50000
                   /\ \A i \in (Len(tasks) + 1)..Len(tasks') : tasks'[i].state = "fetching"
                   /\ errorMessage' = Null
                   /\ totalChecks' = 50000
                   /\ flushInterval' # 0
                   /\ timers' = {flushInterval'}
                   /\ isLoading' = TRUE]_vars

\* C10 witness: a submission of 251 base names and 200 TLDs (50,200
\* combinations) was refused: the message is set, nothing was dispatched, no
\* timer runs
C10_Witness ==
    /\ submissions = 1
    /\ Len(UniqueBaseNames(baseNamesInput)) = 251
    /\ Len(UniqueTlds(tldsInput)) = 200
    /\ errorMessage = "Generated more than 50,000 domain combinations. Please reduce base names or TLDs."
    /\ tasks = <<>>
    /\ Len(gridResults) = 0
    /\ totalChecks = 0
    /\ timers = {}
    /\ ~isLoading

(***************************************************************************)
(* Rejected submissions: specification SpecRejection                       *)
(***************************************************************************)

\* base-name texts: 251 valid names, a valid name next to one with a leading
\* hyphen, delimiters only
RejectionBaseNameInputs ==
    {NameList("n", 251), NameList("n", 1) \o <<" ", "-", "b">>, <<",", " ">>}

\* TLD texts: 200 valid TLDs (with 251 names: 50,200 combinations), one valid
\* TLD, a valid TLD next to an all-numeric one, commas only
RejectionTldInputs ==
    {NameList("t", 200), NameList("t", 1), NameList("t", 1) \o <<",", "1", "1">>, <<",">>}

NextRejection ==
    \/ \E text \in RejectionBaseNameInputs : SetBaseNamesInput(text)
    \/ \E text \in RejectionTldInputs : SetTldsInput(text)
    \/ HandleSubmit
    \/ HandleClear

SpecRejection == Init /\ [][NextRejection]_vars

(***************************************************************************)
(* Properties of rejected submissions (under SpecRejection)                *)
(***************************************************************************)

\* the input errors of a submission, stated on the two parsed lists
RejectedForInput(uniqueBaseNames, uniqueTlds) ==
    \/ Len(uniqueBaseNames) = 0
    \/ Len(uniqueTlds) = 0
    \/ \E k \in 1..Len(uniqueBaseNames) : ~isValidBaseName(uniqueBaseNames[k])
    \/ \E k \in 1..Len(uniqueTlds) : ~isValidTld(uniqueTlds[k])
    \/ Len(uniqueBaseNames) * Len(uniqueTlds) > 50000

\* C11: a submission rejected for an input error (empty base-name list,
\* empty TLD list, an invalid base name, an invalid TLD, more combinations
\* than the ceiling) creates no partial state: after the rejecting step the
\* grid is empty, the running flag is false, no flush timer is active, both
\* counters are 0, the buffer is empty and no task has been dispatched, even
\* when other base names and TLDs of the submission are valid.
C11_RejectionLeavesNoState ==
    [][(/\ submissions' = submissions + 1
        /\ RejectedForInput(UniqueBaseNames(baseNamesInput), UniqueTlds(tldsInput)))
       => /\ errorMessage' # Null
          /\ gridResults' = <<>>
          /\ parsedTldsForTable' = <<>>
          /\ isLoading' = FALSE
          /\ timers' = {}
          /\ flushInterval' = 0
          /\ totalChecks' = 0
          /\ completedChecks' = 0
          /\ pendingCellUpdates' = <<>>
          /\ tasks' = tasks]_vars

\* C11 witness: 251 valid base names submitted with a valid and an
\* all-numeric TLD were rejected after an earlier run was dispatched and
\* cleared: nothing of the rejected submission exists
C11_Witness ==
    /\ submissions = 2
    /\ runId = 1
    /\ Len(UniqueBaseNames(baseNamesInput)) = 251
    /\ UniqueTlds(tldsInput) = <<<<"t", "0", "0", "1">>, <<"1", "1">>>>
    /\ errorMessage = "Invalid TLD(s)"
    /\ gridResults = <<>>
    /\ ~isLoading
    /\ timers = {}
    /\ totalChecks = 0
    /\ completedChecks = 0
    /\ pendingCellUpdates = <<>>
    /\ \A i \in 1..Len(tasks) : tasks[i].run = 1

(***************************************************************************)
(* Properties of clearAsyncOperations and of the batcher (under Spec)      *)
(***************************************************************************)

\* C12: a fresh submission or an explicit clear stops any active flush timer
\* and discards the previous run's pending updates and counters: a clear
\* leaves no timer, an empty buffer and both counters at 0; a submission
\* leaves none of the timers that were active, an empty buffer, and counters
\* that count this submission's tasks only.
C12_ClearStopsAndDiscards ==
    [][/\ HandleClear =>
            /\ timers' = {}
            /\ flushInterval' = 0
            /\ pendingCellUpdates' = <<>>
            /\ completedChecks' = 0
            /\ totalChecks' = 0
       /\ HandleSubmit =>
            /\ timers' \cap timers = {}
            /\ timers' = (IF flushInterval' = 0 THEN {} ELSE {flushInterval'})
            /\ pendingCellUpdates' = <<>>
            /\ completedChecks' = 0
            /\ totalChecks' = Len(tasks') - Len(tasks)]_vars

\* C12 witness: the only run, of two Combinations, was cleared while its
\* timer was active, after one of its checks had settled
C12_Witness ==
    /\ submissions = 1
    /\ Len(tasks) = 2
    /\ tasks[1].state = "settled"
    /\ tasks[2].state = "fetching"
    /\ gridResults = <<>>
    /\ baseNamesInput = <<>>
    /\ timers = {}
    /\ flushInterval = 0
    /\ pendingCellUpdates = <<>>
    /\ completedChecks = 0
    /\ totalChecks = 0

\* the rows and cells of a grid without their statuses and reasons
GridShape(grid) ==
    [r \in 1..Len(grid) |->
        [baseName |-> grid[r].baseName,
         cells |-> [c \in 1..Len(grid[r].tldResults) |->
                       <<grid[r].tldResults[c].tld, grid[r].tldResults[c].id>>]]]

\* every cell of the grid is a Combination of the latest accepted submission
GridWithinCrossProduct ==
    \A r \in 1..Len(gridResults) : \A c \in 1..Len(gridResults[r].tldResults) :
        \E i \in CurrentTasks :
            /\ tasks[i].baseName = gridResults[r].baseName
            /\ tasks[i].tld = gridResults[r].tldResults[c].tld

\* a step other than a submission or a clear keeps the rows and cells of the
\* grid, and changes only cells that an update of the drained buffer names
FlushKeepsShape ==
    (submissions' = submissions /\ Len(gridResults') > 0) =>
        /\ GridShape(gridResults') = GridShape(gridResults)
        /\ \A r \in 1..Len(gridResults) : \A c \in 1..Len(gridResults[r].tldResults) :
              LET cell == gridResults[r].tldResults[c]
                  named(buffer) == HasCellUpdate(buffer, gridResults[r].baseName, cell.tld)
              IN  gridResults'[r].tldResults[c] # cell
                    => \/ named(pendingCellUpdates)
                       \/ /\ tasks' # tasks
                          /\ \E i \in 1..Len(tasks) :
                                /\ tasks'[i].state # tasks[i].state
                                /\ tasks[i].baseName = gridResults[r].baseName
                                /\ tasks[i].tld = cell.tld

BatchBaseNameInputs == {<<"a", " ", "B", " ", "c">>}
BatchTldInputs == {<<"i", "o">>}

NextBatch ==
    \/ \E text \in BatchBaseNameInputs : SetBaseNamesInput(text)
    \/ \E text \in BatchTldInputs : SetTldsInput(text)
    \/ HandleSubmit
    \/ HandleClear
    \/ \E id \in timers : FlushTimerFires(id)
    \/ \E i \in 1..Len(tasks) : \E results \in SampleResults : TaskSettles(i, results)

SpecBatch == Init /\ [][NextBatch]_vars

(***************************************************************************)
(* Properties of the batcher's flush (under SpecBatch)                     *)
(***************************************************************************)

\* the update of `buffer` enqueued last among those naming the cell decides
\* the cell's status and reason
LastUpdateWins(buffer, baseName, before, after) ==
    \E k \in 1..Len(buffer) :
        /\ buffer[k].baseName = baseName /\ buffer[k].tld = before.tld
        /\ \A j \in (k + 1)..Len(buffer) :
              ~(buffer[j].baseName = baseName /\ buffer[j].tld = before.tld)
        /\ after = [before EXCEPT !.status = buffer[k].status, !.reason = buffer[k].reason]

\* the updates a settling task may enqueue for its Combination
SettlementUpdates(task) ==
    {PendingCellUpdate(task.baseName, task.tld, outcome.status, outcome.reason, task.run) :
        outcome \in {CheckDomainOutcome(task.fullDomain, results) : results \in SampleResults}}

\* C14: when the buffer drained by one flush holds several updates for the
\* same (baseName, tld) cell, the cell ends with the status and reason of the
\* update enqueued last; earlier updates for that cell in the same flush
\* window have no effect on the grid. A periodic flush drains the buffer as
\* it stands; the final flush drains it with the settling task's update
\* enqueued last.
C14_LastWriteWins ==
    [][(/\ submissions' = submissions
        /\ Len(gridResults') > 0
        /\ Len(pendingCellUpdates') = 0)
       => \E drained \in (IF tasks' = tasks THEN {pendingCellUpdates}
                          ELSE LET i == CHOOSE i \in 1..Len(tasks) :
                                            tasks'[i].state # tasks[i].state
                               IN  {Append(pendingCellUpdates, u) :
                                       u \in SettlementUpdates(tasks[i])}) :
            \A r \in 1..Len(gridResults) : \A c \in 1..Len(gridResults[r].tldResults) :
                LET before == gridResults[r].tldResults[c]
                    after == gridResults'[r].tldResults[c]
                IN  IF HasCellUpdate(drained, gridResults[r].baseName, before.tld)
                    THEN LastUpdateWins(drained, gridResults[r].baseName, before, after)
                    ELSE after = before]_vars

\* C14 witness: a periodic flush of the second run drained two updates for
\* a.io, the earlier run's and the run's own, while the run was unfinished:
\* both a.io tasks have settled, nothing else has, the buffer is empty and
\* the cell shows the verdict of the run's own task (no update of the
\* earlier run was applied)
C14_Witness ==
    /\ runId = 2
    /\ isLoading
    /\ totalChecks = 3
    /\ completedChecks = 2
    /\ staleEffects = {"counted"}
    /\ pendingCellUpdates = <<>>
    /\ gridResults[1].baseName = <<"a">>
    /\ gridResults[1].tldResults[1].status = AVAILABLE
    /\ gridResults[1].tldResults[1].reason # Null
    /\ \A i \in 1..Len(tasks) :
          tasks[i].state = "settled" <=> tasks[i].baseName = <<"a">>

(***************************************************************************)
(* Properties of a flush of the empty buffer (under Spec)                  *)
(***************************************************************************)

\* a step that runs flushPendingCellUpdates: the timer's callback, or the
\* final flush of a terminal completion
TimerFlushStep == \E id \in timers : FlushTimerFires(id)
FinalFlushStep == completedChecks' = completedChecks + 1 /\ completedChecks' = totalChecks

\* C15: a flush of the empty buffer is a no-op: the grid, the buffer, the
\* counters and the running flag are unchanged and setGridResults is not
\* called; so after any flush a second flush with no enqueue between them
\* changes nothing.
C15_EmptyFlushIsNoOp ==
    [][/\ (TimerFlushStep /\ Len(pendingCellUpdates) = 0) =>
            /\ gridResults' = gridResults
            /\ pendingCellUpdates' = pendingCellUpdates
            /\ completedChecks' = completedChecks
            /\ totalChecks' = totalChecks
            /\ isLoading' = isLoading
            /\ timers' = timers
            /\ tasks' = tasks
            /\ ~flushIssuedUpdate'
       /\ (TimerFlushStep \/ FinalFlushStep) =>
            /\ FlushedGrid(gridResults', pendingCellUpdates') = gridResults'
            /\ FlushedBuffer(pendingCellUpdates') = pendingCellUpdates'
            /\ ~FlushIssuesUpdate(pendingCellUpdates')]_vars

\* C15 witness: in a running check with a verdict already on the grid, the
\* timer fired on the empty buffer right after the flush that applied the
\* verdict (the flag of a flush that called setGridResults has fallen again)
C15_Witness ==
    /\ isLoading
    /\ submissions = 1
    /\ timers # {}
    /\ pendingCellUpdates = <<>>
    /\ ~flushIssuedUpdate
    /\ completedChecks = 1
    /\ totalChecks = 2
    /\ \E r \in 1..Len(gridResults) : gridResults[r].tldResults[1].status \in FinalStatuses

(***************************************************************************)
(* Runs in which a checkDomain promise may reject: specification           *)
(* SpecSettle                                                              *)
(***************************************************************************)

NextSettle ==
    \/ \E text \in BaseNameInputs : SetBaseNamesInput(text)
    \/ \E text \in TldInputs : SetTldsInput(text)
    \/ HandleSubmit
    \/ HandleClear
    \/ \E id \in timers : FlushTimerFires(id)
    \/ \E i \in 1..Len(tasks) : \E results \in SampleResults : TaskSettles(i, results)
    \/ \E i \in 1..Len(tasks) : TaskRejects(i)

SpecSettle == Init /\ [][NextSettle]_vars

(***************************************************************************)
(* Properties of a task's settlement (under SpecSettle)                    *)
(***************************************************************************)

\* the tasks whose chain ran in this step
SettledInStep == {i \in 1..Len(tasks) : tasks'[i].state # tasks[i].state}

\* the update names the task's Combination
UpdateOf(update, task) == update.baseName = task.baseName /\ update.tld = task.tld

\* the grid has a cell for the task's Combination
CellOfTask(grid, task) ==
    {rc \in CellsOf(grid) : /\ grid[rc[1]].baseName = task.baseName
                            /\ grid[rc[1]].tldResults[rc[2]].tld = task.tld}

\* C16: every settlement of a task, whether checkDomain resolves or rejects,
\* enqueues exactly one update for its Combination and increments
\* completedChecks by exactly one (on terminal completion the final flush
\* drains that update in the same step); when checkDomain rejects, the update
\* has status Invalid and reason "Error during check", and the other tasks
\* are unaffected.
C16_SettlementEnqueuesAndCounts ==
    [][(submissions' = submissions /\ tasks' # tasks) =>
         /\ Cardinality(SettledInStep) = 1
         /\ LET i == CHOOSE i \in SettledInStep : TRUE
                terminal == completedChecks + 1 = totalChecks
            IN  /\ tasks[i].state # "settled" /\ tasks'[i].state = "settled"
                /\ \A j \in 1..Len(tasks) : j # i => tasks'[j] = tasks[j]
                /\ completedChecks' = completedChecks + 1
                /\ ~terminal =>
                      /\ Len(pendingCellUpdates') = Len(pendingCellUpdates) + 1
                      /\ SubSeq(pendingCellUpdates', 1, Len(pendingCellUpdates)) = pendingCellUpdates
                      /\ UpdateOf(pendingCellUpdates'[Len(pendingCellUpdates')], tasks[i])
                      /\ TaskRejects(i) =>
                            /\ pendingCellUpdates'[Len(pendingCellUpdates')].status = INVALID
                            /\ pendingCellUpdates'[Len(pendingCellUpdates')].reason = "Error during check"
                /\ terminal =>
                      /\ pendingCellUpdates' = <<>>
                      /\ \A rc \in CellOfTask(gridResults, tasks[i]) :
                            LET after == gridResults'[rc[1]].tldResults[rc[2]]
                            IN  /\ after.status \in FinalStatuses
                                /\ TaskRejects(i) =>
                                      /\ after.status = INVALID
                                      /\ after.reason = "Error during check"]_vars

\* C16 witness: in a finished run of two Combinations one check was rejected
\* (its cell is Invalid, "Error during check") and the other settled with the
\* verdict Available
C16_Witness ==
    /\ submissions = 1
    /\ ~isLoading
    /\ completedChecks = 2
    /\ totalChecks = 2
    /\ pendingCellUpdates = <<>>
    /\ Len(gridResults) = 2
    /\ gridResults[1].tldResults[1].status = INVALID
    /\ gridResults[1].tldResults[1].reason = "Error during check"
    /\ gridResults[2].tldResults[1].status = AVAILABLE
    /\ \A i \in 1..Len(tasks) : tasks[i].state = "settled"

(***************************************************************************)
(* Runs under fair scheduling: specifications SpecHung and SpecFair        *)
(***************************************************************************)

\* the domain one of whose DNS-over-HTTPS queries never settles: Promise.all
\* of its checkDomain call never resolves
HungDomain == <<"b", ".", "i", "o">>

\* the settlements that can happen when the queries of HungDomain hang
SettlesUnlessHung ==
    \E i \in 1..Len(tasks) : \E results \in SampleResults :
        tasks[i].fullDomain # HungDomain /\ TaskSettles(i, results)

\* the callback of an active interval runs
TimerFires == \E id \in timers : FlushTimerFires(id)

\* some task's promise settles
SomeTaskSettles ==
    \E i \in 1..Len(tasks) : \E results \in SampleResults : TaskSettles(i, results)

NextHung ==
    \/ \E text \in BaseNameInputs : SetBaseNamesInput(text)
    \/ \E text \in TldInputs : SetTldsInput(text)
    \/ HandleSubmit
    \/ HandleClear
    \/ TimerFires
    \/ SettlesUnlessHung

\* the enabling condition of SettlesUnlessHung and of SomeTaskSettles
HungSettleEnabled ==
    \E i \in 1..Len(tasks) : tasks[i].fullDomain # HungDomain /\ CanSettle(i)
SettleEnabled == \E i \in 1..Len(tasks) : CanSettle(i)

\* window.setInterval keeps calling the flush while the interval is
\* registered (weak fairness of TimerFires), and every query other than the
\* hung one settles (weak fairness of SettlesUnlessHung, written out with
\* its enabling condition)
SpecHung ==
    /\ Init
    /\ [][NextHung]_vars
    /\ WF_vars(TimerFires)
    /\ ([]<>(~HungSettleEnabled) \/ []<><<SettlesUnlessHung>>_vars)

\* every query settles (weak fairness of SomeTaskSettles, written out with
\* its enabling condition), and the interval keeps firing while registered
SpecFair ==
    /\ Init
    /\ [][Next]_vars
    /\ WF_vars(TimerFires)
    /\ ([]<>(~SettleEnabled) \/ []<><<SomeTaskSettles>>_vars)

(***************************************************************************)
(* Properties of runs under fair scheduling                                *)
(***************************************************************************)

\* run n is the one on display and it is still running
Running(n) == runId = n /\ isLoading /\ Len(gridResults) > 0

\* run n is no longer on display: a later submission or a clear replaced it
Superseded(n) == runId # n \/ Len(gridResults) = 0

\* the cells of the grid for HungDomain, and the others
HungCells == {rc \in CellsOf(gridResults) :
                FullDomain(gridResults[rc[1]].baseName,
                           gridResults[rc[1]].tldResults[rc[2]].tld) = HungDomain}
OtherCells == CellsOf(gridResults) \ HungCells

\* the finished signal: the running flag falls and the elapsed time is shown
FinishedSignal == isLoading /\ ~isLoading' /\ timeTaken' # Null

\* C17: when a query of one domain never settles, only that domain's verdict
\* is stalled: with the flush timer and the other queries scheduled fairly,
\* every other Combination's cell eventually leaves Checking and shows its
\* verdict, while the hung domain's cell stays Checking and the run is never
\* signalled finished.
C17_HungQueryStallsOnlyItsDomain ==
    /\ \A n \in 1..MaxSubmits :
          Running(n) ~> (\/ Superseded(n)
                         \/ \A rc \in OtherCells :
                               gridResults[rc[1]].tldResults[rc[2]].status \in FinalStatuses)
    /\ [](\A rc \in HungCells : gridResults[rc[1]].tldResults[rc[2]].status = CHECKING)
    /\ [][HungCells # {} => ~FinishedSignal]_vars

\* C18: an accepted submission all of whose queries eventually settle is
\* driven to completion: eventually the running flag is false, the flush
\* timer is stopped and every cell of the grid holds a final status
\* (Available, Taken or Invalid), unless a later submission or a clear
\* replaces the run first.
C18_RunDrivenToCompletion ==
    \A n \in 1..MaxSubmits :
        Running(n) ~> (\/ Superseded(n)
                       \/ /\ ~isLoading
                          /\ timers = {}
                          /\ \A rc \in CellsOf(gridResults) :
                                gridResults[rc[1]].tldResults[rc[2]].status \in FinalStatuses)

(***************************************************************************)
(* Properties of one makeDohQuery call (under SpecCheckDomain)             *)
(***************************************************************************)

\* the result query k's promise resolved with in this step
ResolvedWith(k) == cdQueries'[k].result[1]

\* query k's promise resolves in this step
QueryReturns(k) == cdQueries[k].pc # "done" /\ cdQueries'[k].pc = "done"

\* C19: a query never throws past makeDohQuery: whatever the request's
\* outcome (transport rejection, non-2xx with a parseable or an unparseable
\* body, 2xx with a parseable, an unparseable or a null body) the promise
\* resolves with a result for its provider and record type; the result
\* carries an error in every non-2xx and every transport or parse failure
\* case, and the body's Status as dnsStatus whenever the response was
\* non-2xx and the body parsed.
C19_QueryAlwaysResolves ==
    [][\A k \in 1..Len(cdQueries) :
         /\ (Len(cdQueries') = Len(cdQueries) /\ cdQueries'[k] # cdQueries[k]) =>
               \/ cdQueries[k].pc = "fetch" /\ cdQueries'[k].pc = "json"
               \/ QueryReturns(k)
         /\ (Len(cdQueries') = Len(cdQueries) /\ QueryReturns(k)) =>
               /\ cdQueries'[k].result # None
               /\ ResolvedWith(k).providerName = QueryPlan[k].providerName
               /\ ResolvedWith(k).recordType = QueryPlan[k].recordType
               /\ FetchRejects(k) =>
                     ResolvedWith(k).error # Null /\ ResolvedWith(k).dnsStatus = None
               /\ JsonRejects(k) =>
                     ResolvedWith(k).error # Null /\ ResolvedWith(k).dnsStatus = None
               /\ \A body \in JsonBodies : JsonResolves(k, body) =>
                     LET ok == cdQueries[k].response[1].ok
                     IN  /\ ~ok => ResolvedWith(k).error # Null
                         /\ (~ok /\ body # None) => ResolvedWith(k).dnsStatus = body[1].Status
                         /\ (~ok /\ body = None) => ResolvedWith(k).dnsStatus = None
                         /\ (ok /\ body = None) => ResolvedWith(k).error # Null
                         /\ (ok /\ body # None) =>
                               /\ ResolvedWith(k).error = Null
                               /\ ResolvedWith(k).dnsStatus = body[1].Status]_vars

\* C19 witness: the four queries of one call resolved after a transport
\* rejection, a non-2xx response whose body parsed with Status 3, a 2xx
\* response with a null body, and a non-2xx response whose body did not parse
C19_Witness ==
    /\ Len(cdQueries) = 4
    /\ \A k \in 1..4 : cdQueries[k].pc = "done"
    /\ cdQueries[1].response = None
    /\ CdResult(1).error = FetchFailedMessage
    /\ cdQueries[2].response # None /\ ~cdQueries[2].response[1].ok
    /\ CdResult(2).error = "HTTP error 500 Internal Server Error"
    /\ CdResult(2).dnsStatus = Some(NXDOMAIN)
    /\ cdQueries[3].response # None /\ cdQueries[3].response[1].ok
    /\ CdResult(3).error = NullBodyMessage
    /\ cdQueries[4].response # None /\ ~cdQueries[4].response[1].ok
    /\ CdResult(4).error = JsonFailedMessage
    /\ CdResult(4).dnsStatus = None

(***************************************************************************)
(* Properties of the audit trail (under SpecCheckDomain)                   *)
(***************************************************************************)

\* what was observed for one query: its status when it is NOERROR or
\* NXDOMAIN, else its error, else its status code
Observed(res) ==
    IF res.dnsStatus = Some(0)
    THEN "NOERROR" \o (IF res.data # None /\ res.data[1].Answer > 0
                       THEN " (has records)" ELSE " (no specific records, e.g., parked)")
    ELSE IF res.dnsStatus = Some(3) THEN "NXDOMAIN"
    ELSE IF res.error # Null THEN "Error (" \o res.error \o ")"
    ELSE IF res.dnsStatus = None THEN "Status Unknown"
    ELSE "Status " \o ToString(res.dnsStatus[1])

\* the trail's line for query k of the plan
TrailLine(k) ==
    QueryPlan[k].providerName \o " " \o QueryPlan[k].recordType \o "-query: "
        \o Observed(CdResult(k))

\* the lines of the queries in `ks`, an increasing sequence of indices
TrailLines(ks) == Join([j \in 1..Len(ks) |-> TrailLine(ks[j])], "; ")

\* the trail in which each of the four queries has exactly one line: the
\* NOERROR queries first when there is one, the others after them
ExpectedTrail ==
    LET all == [k \in 1..Len(QueryPlan) |-> k]
        noError(k) == CdResult(k).dnsStatus = Some(0)
        others(k) == ~noError(k)
    IN  IF CdSomeNoError
        THEN "Taken because: " \o TrailLines(SelectSeq(all, noError))
             \o ". Other details: " \o TrailLines(SelectSeq(all, others))
        ELSE IF CdAllNxDomain
        THEN "All providers reported NXDOMAIN for A & NS records. Details: " \o TrailLines(all)
        ELSE "Availability ambiguous, assuming taken. Details: " \o TrailLines(all)

\* C20: for every valid domain the reason returned by checkDomain is
\* non-empty and names each of the four (provider, record type) queries
\* exactly once with the status or error observed for it, in all three
\* verdict branches; the filtering of "Other details" drops and duplicates
\* nothing.
C20_ReasonNamesEveryQueryOnce ==
    CdClassified =>
        /\ cdOutcome.reason # Null
        /\ cdOutcome.reason # ""
        /\ cdOutcome.reason = ExpectedTrail

\* C20 witness: a Taken verdict whose trail has the NOERROR query first and
\* the NXDOMAIN, the failed and the SERVFAIL query under "Other details"
C20_Witness ==
    /\ CdClassified
    /\ cdOutcome.status = TAKEN
    /\ cdOutcome.reason = "Taken because: Cloudflare A-query: NOERROR (has records). Other details: Cloudflare NS-query: NXDOMAIN; Google A-query: Error (Failed to fetch); Google NS-query: Status 2"

(***************************************************************************)
(* A TLD that spells an inherited property: specification SpecColumns      *)
(***************************************************************************)

\* one base name and two TLDs, io and constructor: a run of two Combinations
\* in one row
ColumnsBaseNameInputs == {<<"a">>}
ColumnsTldInputs ==
    {<<"i", "o", ",", "c", "o", "n", "s", "t", "r", "u", "c", "t", "o", "r">>}

NextColumns ==
    \/ \E text \in ColumnsBaseNameInputs : SetBaseNamesInput(text)
    \/ \E text \in ColumnsTldInputs : SetTldsInput(text)
    \/ HandleSubmit
    \/ HandleClear
    \/ \E id \in timers : FlushTimerFires(id)
    \/ \E i \in 1..Len(tasks) : \E results \in SampleResults : TaskSettles(i, results)

SpecColumns == Init /\ [][NextColumns]_vars

(***************************************************************************)
(* Properties of the frame of a flush (under SpecColumns)                  *)
(***************************************************************************)

\* the updates a flush of this step drains: the buffer, and on a terminal
\* completion the update the settling task enqueues for its Combination
DrainedNames(baseName, tld) ==
    \/ HasCellUpdate(pendingCellUpdates, baseName, tld)
    \/ \E i \in 1..Len(tasks) :
          /\ tasks'[i].state # tasks[i].state
          /\ tasks[i].baseName = baseName
          /\ tasks[i].tld = tld

\* C21: a flush changes only the status and reason of the cells named by the
\* drained updates: rows with no matching update are returned as the same
\* row value, cells with no matching update keep their value, and an updated
\* cell keeps its tld and id; row order and cell order within a row are
\* unchanged.
C21_FlushFrame ==
    [][(submissions' = submissions /\ Len(gridResults') > 0) =>
         /\ Len(gridResults') = Len(gridResults)
         /\ \A r \in 1..Len(gridResults) :
               LET row == gridResults[r]
                   after == gridResults'[r]
               IN  /\ after.baseName = row.baseName
                   /\ Len(after.tldResults) = Len(row.tldResults)
                   /\ (\A c \in 1..Len(row.tldResults) :
                          ~DrainedNames(row.baseName, row.tldResults[c].tld))
                      => after = row
                   /\ \A c \in 1..Len(row.tldResults) :
                         /\ after.tldResults[c].tld = row.tldResults[c].tld
                         /\ after.tldResults[c].id = row.tldResults[c].id
                         /\ ~DrainedNames(row.baseName, row.tldResults[c].tld)
                              => after.tldResults[c] = row.tldResults[c]]_vars

(***************************************************************************)
(* One checkDomain call for a given name: specification SpecJoin           *)
(***************************************************************************)

\* the arguments of the call: a valid name, and one with an all-numeric TLD
JoinDomainInputs == {<<"a", ".", "i", "o">>, <<"a", ".", "1", "1">>}

InitJoin ==
    /\ AppInit
    /\ CdIdle
    /\ cdDomain \in JoinDomainInputs

SpecJoin == InitJoin /\ [][NextCheckDomain]_vars

(***************************************************************************)
(* Properties of the join of the four queries (under SpecJoin)             *)
(***************************************************************************)

\* the results of the call's queries in the order `order` settles them
ResultsInOrder(order) == [k \in 1..Len(cdQueries) |-> CdResult(order[k])]

\* the call has issued its queries: one per (provider, record type) pair
OneQueryPerPair ==
    /\ cdFetchCalls = 4
    /\ Len(cdQueries) = 4
    /\ \A provider \in {"Cloudflare", "Google"} : \A recordType \in {"A", "NS"} :
          Cardinality({k \in 1..Len(cdQueries) :
                          /\ QueryPlan[k].providerName = provider
                          /\ QueryPlan[k].recordType = recordType}) = 1

\* the state of a call for a valid domain: nothing issued before the call,
\* four queries after it, no verdict while it waits, and a verdict that any
\* order of the four results gives
JoinAllState ==
    isValidDomainFormat(cdDomain).valid =>
        /\ cdPc = "idle" => (cdFetchCalls = 0 /\ cdQueries = <<>>)
        /\ cdPc # "idle" => OneQueryPerPair
        /\ cdPc # "done" => cdOutcome = NoOutcome
        /\ cdPc = "done" =>
              /\ \A k \in 1..Len(cdQueries) : cdQueries[k].pc = "done"
              /\ cdOutcome.status \in {TAKEN, AVAILABLE}
              /\ \A order \in Permutations(1..Len(cdQueries)) :
                    Classify(ResultsInOrder(order)).status = cdOutcome.status

\* the four queries are issued in one step, all in flight at its end, and
\* the verdict appears in a step that starts with all four settled
JoinAllStep ==
    /\ cdFetchCalls' # cdFetchCalls =>
          /\ cdFetchCalls' = cdFetchCalls + 4
          /\ \A k \in 1..Len(cdQueries') : cdQueries'[k].pc = "fetch"
    /\ (cdOutcome' # cdOutcome /\ isValidDomainFormat(cdDomain).valid) =>
          /\ Len(cdQueries) = 4
          /\ \A k \in 1..Len(cdQueries) : cdQueries[k].pc = "done"

\* C22: for a valid domain checkDomain issues exactly one query per
\* (provider, record type) pair, 2 providers x {A, NS} = 4 queries, all
\* started before any result is awaited, and produces no verdict until all
\* four have settled; the resulting status (Taken or Available) depends only
\* on the set of four results and not on the order in which they settle.
C22_JoinAllQueries == []JoinAllState /\ [][JoinAllStep]_vars

\* C22 witness: a verdict reached after the four queries settled, the last of
\* the plan with NOERROR and the others with NXDOMAIN: Taken
C22_Witness ==
    /\ CdClassified
    /\ cdFetchCalls = 4
    /\ \A k \in 1..3 : CdResult(k).dnsStatus = Some(NXDOMAIN)
    /\ CdResult(4).dnsStatus = Some(NOERROR)
    /\ cdOutcome.status = TAKEN

(***************************************************************************)
(* Runs with Combinations that fail validation: specification SpecDispatch *)
(***************************************************************************)

\* two base names and two TLDs, io and a.b: a.b passes isValidTld, and the
\* full domains that end with it fail isValidDomainFormat (a final label of
\* one character), so two of the four Combinations are valid
DispatchBaseNameInputs == {<<"a", " ", "B">>}
DispatchTldInputs == {<<"i", "o", ",", "a", ".", "b">>}

NextDispatch ==
    \/ \E text \in DispatchBaseNameInputs : SetBaseNamesInput(text)
    \/ \E text \in DispatchTldInputs : SetTldsInput(text)
    \/ HandleSubmit
    \/ HandleClear
    \/ \E id \in timers : FlushTimerFires(id)
    \/ \E i \in 1..Len(tasks) : \E results \in SampleResults : TaskSettles(i, results)

SpecDispatch == Init /\ [][NextDispatch]_vars

(***************************************************************************)
(* Properties of the dispatch of a submission (under SpecDispatch)         *)
(***************************************************************************)

\* the number of queries in flight for the tasks ts[from..Len(ts)]
RECURSIVE InFlightFrom(_, _)
InFlightFrom(ts, from) ==
    IF from > Len(ts) THEN 0
    ELSE QueriesInFlight(ts[from]) + InFlightFrom(ts, from + 1)

\* C23: an accepted submission dispatches one classification task per
\* Combination with no concurrency limit: at the end of the submission step
\* every Combination's task has been started and all of its queries are in
\* flight before any task's result is handled, so the number of in-flight
\* queries reaches 4 times the number of valid Combinations.
C23_AllDispatchedAtOnce ==
    [][(submissions' = submissions + 1 /\ isLoading') =>
         LET uniqueBaseNames == UniqueBaseNames(baseNamesInput)
             uniqueTlds == UniqueTlds(tldsInput)
             new == (Len(tasks) + 1)..Len(tasks')
             valid == {i \in new : isValidDomainFormat(tasks'[i].fullDomain).valid}
         IN  /\ Cardinality(new) = Len(uniqueBaseNames) * Len(uniqueTlds)
             /\ \A b \in 1..Len(uniqueBaseNames) : \A t \in 1..Len(uniqueTlds) :
                   Cardinality({i \in new : /\ tasks'[i].baseName = uniqueBaseNames[b]
                                            /\ tasks'[i].tld = uniqueTlds[t]}) = 1
             /\ \A i \in new :
                   /\ tasks'[i].fullDomain = tasks'[i].baseName \o <<".">> \o tasks'[i].tld
                   /\ tasks'[i].state = (IF i \in valid THEN "fetching" ELSE "resolved")
                   /\ QueriesInFlight(tasks'[i]) = (IF i \in valid THEN 4 ELSE 0)
             /\ InFlightFrom(tasks', Len(tasks) + 1) = 4 * Cardinality(valid)
             /\ completedChecks' = 0
             /\ pendingCellUpdates' = <<>>
             /\ \A rc \in CellsOf(gridResults') :
                   gridResults'[rc[1]].tldResults[rc[2]].status = CHECKING]_vars

\* C23 witness: right after a submission of four Combinations, two of them
\* valid, the four tasks exist, none has been handled and the eight queries
\* of the two valid ones are in flight
C23_Witness ==
    /\ submissions = 1
    /\ isLoading
    /\ Len(tasks) = 4
    /\ completedChecks = 0
    /\ pendingCellUpdates = <<>>
    /\ Cardinality({i \in 1..4 : tasks[i].state = "fetching"}) = 2
    /\ Cardinality({i \in 1..4 : tasks[i].state = "resolved"}) = 2
    /\ InFlightFrom(tasks, 1) = 8

(***************************************************************************)
(* Properties of the grid's initialisation and mutation (under Spec)       *)
(***************************************************************************)

\* the grid has one row per name and one Checking cell per TLD, in order
AllChecking(grid, names, tlds) ==
    /\ Len(grid) = Len(names)
    /\ \A r \in 1..Len(names) :
          /\ grid[r].baseName = names[r]
          /\ Len(grid[r].tldResults) = Len(tlds)
          /\ \A c \in 1..Len(tlds) :
                /\ grid[r].tldResults[c].tld = tlds[c]
                /\ grid[r].tldResults[c].status = CHECKING
                /\ grid[r].tldResults[c].reason = Null

\* C24: at an accepted submission the grid is initialised with one row per
\* unique base name and, in each row, one cell per unique TLD in input order,
\* every cell in status Checking; afterwards a cell's status changes only
\* through a flush of buffered outcomes (or through the grid being reset by a
\* later submission or clear), never directly by a classification task.
C24_GridOnlyThroughFlush ==
    [][/\ (submissions' = submissions + 1 /\ isLoading') =>
             AllChecking(gridResults', UniqueBaseNames(baseNamesInput),
                         UniqueTlds(tldsInput))
       /\ gridResults' # gridResults =>
             \/ HandleSubmit
             \/ HandleClear
             \/ /\ TimerFlushStep \/ FinalFlushStep
                /\ flushIssuedUpdate'
                /\ pendingCellUpdates' = <<>>
                /\ \/ Len(pendingCellUpdates) > 0
                   \/ Cardinality(SettledInStep) = 1
       /\ (tasks' # tasks /\ submissions' = submissions /\ ~FinalFlushStep) =>
             /\ gridResults' = gridResults
             /\ Len(pendingCellUpdates') = Len(pendingCellUpdates) + 1]_vars

\* C24 witness: in a run of two Combinations one check has settled and its
\* outcome waits in the buffer, while both cells of the grid still show
\* Checking
C24_Witness ==
    /\ submissions = 1
    /\ isLoading
    /\ completedChecks = 1
    /\ Len(pendingCellUpdates) = 1
    /\ pendingCellUpdates[1].status \in FinalStatuses
    /\ AllChecking(gridResults, <<<<"a">>, <<"b">>>>, <<<<"i", "o">>>>)

(***************************************************************************)
(* Runs with the sorted and filtered view: specification SpecView          *)
(***************************************************************************)

\* texts typed into the base-name filter, and the filter panel's checkboxes;
\* the runs are those of the base names a and b with the TLD io
FilterQueryInputs == {<<"b">>, <<>>}
FilterCheckboxes == {"hasAvailable", "noTaken", "noInvalid", "bestConsonant"}

NextView ==
    \/ \E text \in DispatchBaseNameInputs : SetBaseNamesInput(text)
    \/ \E text \in BatchTldInputs : SetTldsInput(text)
    \/ HandleSubmit
    \/ HandleClear
    \/ \E id \in timers : FlushTimerFires(id)
    \/ \E i \in 1..Len(tasks) : \E results \in SampleResults : TaskSettles(i, results)
    \/ \E key \in SortKeys(parsedTldsForTable) : HandleSortRequest(key)
    \/ \E text \in FilterQueryInputs : HandleFilterChange("baseNameQuery", text)
    \/ \E name \in FilterCheckboxes : HandleFilterChange(name, ~filterOptions[name])
    \/ HandleClearFilters

SpecView == Init /\ [][NextView]_vars

(***************************************************************************)
(* Properties of the sort configuration (under SpecView)                   *)
(***************************************************************************)

\* the sort a request for `key` must leave
ToggledSort(key) ==
    IF sortConfig = None THEN [key |-> key, direction |-> "ascending"]
    ELSE IF sortConfig[1].key # key THEN [key |-> key, direction |-> "ascending"]
    ELSE IF sortConfig[1].direction = "ascending" THEN [key |-> key, direction |-> "descending"]
    ELSE [key |-> key, direction |-> "ascending"]

\* C25: sort direction follows a two-state toggle per key: a sort request for
\* a key that is not the current sort key sets direction ascending; a request
\* for the current key sets descending when the direction was ascending and
\* ascending when it was descending; a new submission, clear or clear-filters
\* resets the sort to none.
C25_SortToggle ==
    [][/\ \A key \in SortKeys(parsedTldsForTable) :
             HandleSortRequest(key) => sortConfig' = <<ToggledSort(key)>>
       /\ (HandleSubmit \/ HandleClear \/ HandleClearFilters) => sortConfig' = <<>>
       /\ sortConfig' # sortConfig =>
             \/ HandleSubmit \/ HandleClear \/ HandleClearFilters
             \/ \E key \in SortKeys(parsedTldsForTable) : HandleSortRequest(key)]_vars

\* C25 witness: the view is sorted by the io column in descending direction,
\* which only a second request for that column sets
C25_Witness ==
    /\ Len(gridResults) = 2
    /\ sortConfig = <<[key |-> <<"i", "o">>, direction |-> "descending"]>>

(***************************************************************************)
(* The sorted view as a function of any rows: specification SpecSort       *)
(***************************************************************************)

\* the row lists the view is computed for: rows a, b and c of type
\* ProcessedBaseNameResult, each with the io cell in one of the five statuses
\* or with no cell (the type does not tie a row's tldResults to the table's
\* columns)
SortGrids ==
    LET SortRow(baseName, status) ==
            [baseName |-> baseName,
             tldResults |-> IF status = None THEN <<>>
                            ELSE <<[tld |-> <<"i", "o">>, status |-> status[1],
                                    id |-> <<0, 0, 0>>, reason |-> Null]>>]
    IN  {<<SortRow(<<"a">>, s[1]), SortRow(<<"b">>, s[2]), SortRow(<<"c">>, s[3])>> :
            s \in [1..3 -> {None} \cup {Some(status) : status \in DomainStatus}]}

\* the component with one of those row lists as its grid, no run loading
InitSort ==
    /\ gridResults \in SortGrids
    /\ parsedTldsForTable = <<<<"i", "o">>>>
    /\ baseNamesInput = <<>>
    /\ tldsInput = <<>>
    /\ isLoading = FALSE
    /\ errorMessage = Null
    /\ startTime = Null
    /\ timeTaken = Null
    /\ sortConfig = None
    /\ filterOptions = NoFilters
    /\ pendingCellUpdates = <<>>
    /\ flushInterval = 0
    /\ completedChecks = 0
    /\ totalChecks = 0
    /\ timers = {}
    /\ tasks = <<>>
    /\ submissions = 0
    /\ runId = 0
    /\ staleEffects = {}
    /\ flushIssuedUpdate = FALSE
    /\ CdIdle
    /\ cdDomain = <<>>

NextSort ==
    \/ \E key \in SortKeys(parsedTldsForTable) : HandleSortRequest(key)
    \/ \E text \in FilterQueryInputs : HandleFilterChange("baseNameQuery", text)
    \/ \E name \in FilterCheckboxes : HandleFilterChange(name, ~filterOptions[name])
    \/ HandleClearFilters

SpecSort == InitSort /\ [][NextSort]_vars

(***************************************************************************)
(* Properties of the sorted view (under SpecSort)                          *)
(***************************************************************************)

\* the view on display
DisplayedRows == sortedAndFilteredResults(gridResults, filterOptions, sortConfig)

\* the row has a cell for the TLD
HasCellFor(row, tld) == \E c \in 1..Len(row.tldResults) : row.tldResults[c].tld = tld

\* the rank of the row's cell for the TLD: Available < Checking < Idle <
\* Invalid < Taken
RankFor(row, tld) ==
    LET cell == row.tldResults[CHOOSE c \in 1..Len(row.tldResults) :
                                   row.tldResults[c].tld = tld]
    IN  CASE cell.status = "Available" -> 0
          [] cell.status = "Checking" -> 1
          [] cell.status = "Idle" -> 2
          [] cell.status = "Invalid" -> 3
          [] cell.status = "Taken" -> 4

ListedConditions(n) ==
    LET dots == {i \in 1..Len(n) : n[i] = "."}
        lastDot == CHOOSE i \in dots : \A j \in dots : j <= i
        labelStart(i) == i = 1 \/ n[i - 1] = "."
        labelEnd(i) == i = Len(n) \/ n[i + 1] = "."
    IN  /\ Len(n) >= 3
        /\ Len(n) <= 253
        /\ dots # {}
        /\ 1 \notin dots
        /\ Len(n) \notin dots
        /\ \A i \in 1..Len(n) : n[i] \in LowerChars \cup DigitChars \cup {".", "-"}
        /\ \A i \in dots : (i + 1) \notin dots
        /\ \A i \in 1..(Len(n) - 63) : \E j \in i..(i + 63) : j \in dots
        /\ \A i \in 1..Len(n) : n[i] = "-" => (~labelStart(i) /\ ~labelEnd(i))
        /\ Len(n) - lastDot >= 2
        /\ \E i \in (lastDot + 1)..Len(n) : n[i] \notin DigitChars

\* C27: the full-domain validator accepts a string if and only if, after
\* lower-casing and trimming, its length is between 3 and 253, it contains a
\* dot that is neither first nor last, it contains only characters of
\* [a-z0-9.-], it has no consecutive dots, every label has 1 to 63 characters
\* with no leading or trailing hyphen, and its final label has at least 2
\* characters and is not all digits; it never throws and reports failure as
\* {valid: false, reason}.
C27_ValidatorAcceptsExactly ==
    LET result == isValidDomainFormat(cdDomain)
    IN  /\ result.valid <=> ListedConditions(Trim(ToLowerCase(cdDomain)))
        /\ result.valid => result = [valid |-> TRUE, reason |-> Null]
        /\ ~result.valid => (result.reason # Null /\ result.reason # "")
        /\ cdPc = "waiting" => result.valid
        /\ (cdPc = "done" /\ cdQueries = <<>>) =>
              (~result.valid /\ cdOutcome.reason = result.reason)

\* C27 witness: the call went on to its four queries for " A.Io ", which the
\* validator accepts as a.io
C27_Witness ==
    /\ cdDomain = <<" ", "A", ".", "I", "o", " ">>
    /\ isValidDomainFormat(cdDomain) = [valid |-> TRUE, reason |-> Null]
    /\ cdPc = "waiting"
    /\ Len(cdQueries) = 4

(***************************************************************************)
(* Properties of the flush timer's lifetime (under Spec)                   *)
(***************************************************************************)

\* C28: the periodic flush timer is active exactly for the duration of an
\* active run: in every reachable state (observed between event handlers) a
\* flush timer is registered if and only if the running flag is true, and at
\* most one flush timer is registered at any time.
C28_TimerIffRunning ==
    /\ timers # {} <=> isLoading
    /\ Cardinality(timers) <= 1
    /\ timers = (IF flushInterval = 0 THEN {} ELSE {flushInterval})

\* C28 witness: a second run is loading with its own timer as the only one,
\* after the first run was cleared with a check still in flight
C28_Witness ==
    /\ runId = 2
    /\ isLoading
    /\ timers = {2}
    /\ flushInterval = 2
    /\ \E i \in 1..Len(tasks) : tasks[i].run = 1 /\ tasks[i].state = "fetching"

(***************************************************************************)
(* Properties of a finished run's grid (under Spec)                        *)
(***************************************************************************)

\* C29: whenever the running flag is false and the grid is non-empty, no
\* grid cell is in status Checking, so the Available, Taken and Invalid
\* counts of the final summary add up to the reported total; this holds
\* after any sequence of submissions, clears and task settlements, including
\* a submission made while checks of a cleared run are still in flight.
C29_NoCheckingWhenIdle ==
    (~isLoading /\ Len(gridResults) > 0)
    => /\ \A rc \in CellsOf(gridResults) :
              gridResults[rc[1]].tldResults[rc[2]].status # CHECKING
       /\ Cardinality({rc \in CellsOf(gridResults) :
              gridResults[rc[1]].tldResults[rc[2]].status \in FinalStatuses})
          = Len(parsedTldsForTable) * Len(gridResults)

(***************************************************************************)
(* Properties of the progress counter (under SpecBatch)                    *)
(***************************************************************************)

\* the cells of the grid that show a final status
FinalCells ==
    {rc \in CellsOf(gridResults) :
        gridResults[rc[1]].tldResults[rc[2]].status \in FinalStatuses}

\* the cells of the grid for which an update waits in the buffer
BufferedCells ==
    {rc \in CellsOf(gridResults) :
        \E k \in 1..Len(pendingCellUpdates) :
            /\ pendingCellUpdates[k].baseName = gridResults[rc[1]].baseName
            /\ pendingCellUpdates[k].tld = gridResults[rc[1]].tldResults[rc[2]].tld}

\* C30: during a run that is not interrupted by a clear or a new submission
\* the progress counter and the grid stay consistent: completedChecks equals
\* the number of grid cells with a final status plus the number of distinct
\* cells that have an update waiting in the buffer, and the number of cells
\* with a final status never exceeds completedChecks.
C30_CounterMatchesGrid ==
    (isLoading /\ Len(gridResults) > 0)
    => /\ completedChecks = Cardinality(FinalCells) + Cardinality(BufferedCells)
       /\ Cardinality(FinalCells) <= completedChecks

(***************************************************************************)
(* Properties of settlements after a clear (under Spec)                    *)
(***************************************************************************)

\* the state handleClear leaves behind, until the next submission is
\* accepted: no run on display, the running flag false, nothing to count
ClearedAndIdle ==
    /\ gridResults = <<>>
    /\ ~isLoading
    /\ totalChecks = 0

\* C31: after an explicit clear issued during an active run, and until the
\* next submission, the settlement of the cleared run's in-flight tasks
\* changes neither the grid (it stays empty) nor the running flag (it stays
\* false) nor totalChecks, and never triggers the terminal-completion step
\* (no final flush, no timer change, no elapsed time reported).
C31_SettlementAfterClearIsInert ==
    [][/\ HandleClear => ClearedAndIdle'
       /\ (ClearedAndIdle /\ submissions' = submissions /\ tasks' # tasks)
          => /\ gridResults' = <<>>
             /\ isLoading' = FALSE
             /\ totalChecks' = 0
             /\ ~CompletionStep
             /\ Len(pendingCellUpdates') = Len(pendingCellUpdates) + 1
             /\ flushIssuedUpdate' = FALSE
             /\ UNCHANGED <<timers, flushInterval, timeTaken, startTime>>]_vars

\* C31 witness: the only run, of two Combinations, was cleared with both
\* checks in flight, and one of them has settled since
C31_Witness ==
    /\ submissions = 1
    /\ Len(tasks) = 2
    /\ \E i, j \in 1..2 : tasks[i].state = "settled" /\ tasks[j].state = "fetching"
    /\ baseNamesInput = <<>>
    /\ ClearedAndIdle
    /\ completedChecks = 1
    /\ Len(pendingCellUpdates) = 1
    /\ timers = {}

(***************************************************************************)
(* Properties of the input validators taken together (under SpecDispatch)  *)
(***************************************************************************)

\* C32: every full domain baseName + "." + tld built from a base name
\* accepted by isValidBaseName and a TLD accepted by isValidTld is accepted
\* by the full-domain validator isValidDomainFormat, so no Combination of an
\* accepted submission is classified Invalid for its format.
C32_AcceptedInputsAreWellFormed ==
    /\ \A i \in 1..Len(tasks) :
          (isValidBaseName(tasks[i].baseName) /\ isValidTld(tasks[i].tld))
          => /\ isValidDomainFormat(tasks[i].fullDomain).valid
             /\ tasks[i].state # "resolved"
    /\ \A k \in 1..Len(pendingCellUpdates) : pendingCellUpdates[k].status # INVALID
    /\ \A rc \in CellsOf(gridResults) :
          gridResults[rc[1]].tldResults[rc[2]].status # INVALID

====
